---- MODULE Spec2Model ----
\* Model of the relational-database access core of be-framework-ts
\* (src/database/postgresql/src/index.ts): the pooled query gateway,
\* the Transaction lifecycle, the DDL script accumulator and Db.sync.
EXTENDS Integers, Sequences, FiniteSets, TLC

\* ---------------------------------------------------------------- bounds
NConn == 2
NTx == 1
MaxDefs == 2
MaxFks == 1
MaxSeed == 1
MaxGen == 3
MaxRows == 2
MaxGrants == 2

NULL == 0
Conns == 1..NConn
Txs == 1..NTx

VARIABLES
    free,        \* pg.Pool: connections currently idle in the pool
    txMade,      \* Transaction instances that have been constructed
    txConn,      \* Transaction.conn of each instance (NULL when null)
    txRoe,       \* Transaction.rollbackOnError of each instance
    dbTx,        \* server side: connections with an open transaction block
    pending,     \* server side: effects of each connection's open block
    applied,     \* server side: effects of the current call durably applied
    ended,       \* Transactions whose connection has been released
    log,         \* driver calls (connect, query, release) of the current call
    last,        \* the current / most recent top-level call and its result
    folder,      \* Script.folder
    schema,      \* Script.schema
    syncScripts, \* the module-level syncScripts list
    models,      \* Model objects returned by Db.define
    pc,          \* position of the running Db.sync call
    idx,         \* Db.sync: number of statements of the sequence issued
    syncTx,      \* Db.sync: the Transaction opened by the call
    cb,          \* Db.sync: record of the onSuccessAlter invocations
    placeholder, \* a Placeholder instance: its counter field
    emitted,     \* the generate calls made on that instance, with their output
    store,       \* server side: the rows of the table of models[1]
    owner,       \* the Db instance each model was defined through
    proc,        \* Pool.query calls in flight on one shared Transaction
    acl          \* access control: the running sync or check call

poolVars == <<free, txMade, txConn, txRoe, dbTx, pending, applied, ended>>
scriptVars == <<folder, schema, syncScripts, models, owner>>
syncVars == <<pc, idx, syncTx, cb>>
dataVars == <<placeholder, emitted, store>>
appVars == <<proc, acl>>
vars == <<free, txMade, txConn, txRoe, dbTx, pending, applied, ended, log, last,
          folder, schema, syncScripts, models, pc, idx, syncTx, cb,
          placeholder, emitted, store, owner, proc, acl>>

\* ------------------------------------------------------------ statements
\* A SQL statement, kept structured instead of as text.
Sql(cls) ==
    [cls |-> cls, schema |-> "", table |-> "", name |-> <<>>, fk |-> "",
     refSchema |-> "", refTable |-> "", refKey |-> "",
     defs |-> <<>>, cols |-> <<>>, marks |-> <<>>, set |-> <<>>,
     where |-> <<>>]

BeginQuery == Sql("COMMIT")
CommitQuery == Sql("COMMIT")
RollbackQuery == Sql("ROLLBACK")

\* Statement classes that end a transaction block by committing it, and the
\* class that opens one.
CommitClass == {"COMMIT"}
StartClass == {"BEGIN"}

\* ---------------------------------------------------------------- driver
\* Errors the driver can throw: one carrying a code, one without.
DriverErrors ==
    { [code |-> "42P01", hasCode |-> TRUE, sqlMessage |-> "",
       hasSqlMessage |-> FALSE, text |-> "relation does not exist"],
      [code |-> "", hasCode |-> FALSE, sqlMessage |-> "",
       hasSqlMessage |-> FALSE, text |-> "timeout"],
      [code |-> "ER_DUP", hasCode |-> TRUE, sqlMessage |-> "duplicate",
       hasSqlMessage |-> TRUE, text |-> "dup" ] }

NoError ==
    [code |-> "", hasCode |-> FALSE, sqlMessage |-> "",
     hasSqlMessage |-> FALSE, text |-> ""]

\* Outcomes of one conn.query call: the rows of a success, or a thrown error.
RowSets == {<<>>, <<1>>, <<1, 2>>}
OkOut == [err |-> NoError, rows |-> <<>>]
FailOut ==
    [err |-> CHOOSE e \in DriverErrors : e.hasCode /\ ~e.hasSqlMessage,
     rows |-> <<>>]
Outcomes ==
    {[err |-> NoError, rows |-> r] : r \in RowSets}
        \cup {[err |-> e, rows |-> <<>>] : e \in DriverErrors}

\* The element of a one-element set: used to evaluate a call once and name
\* its result.
Only(S) == CHOOSE e \in S : TRUE

World ==
    [free |-> free, txConn |-> txConn, dbTx |-> dbTx, pending |-> pending,
     applied |-> applied, log |-> log]

Event(ev, c, sql, ok, w) ==
    [ev |-> ev, conn |-> c, sql |-> sql, ok |-> ok,
     held |-> (c # NULL /\ c \notin w.free),
     tx |-> IF c # NULL /\ \E t \in Txs : w.txConn[t] = c
            THEN CHOOSE t \in Txs : w.txConn[t] = c
            ELSE NULL]

\* pg.Pool.connect() handing out the idle connection c.
Connect(w, c) ==
    [w EXCEPT !.free = @ \ {c},
              !.log = Append(@, Event("connect", c, Sql(""), TRUE, w))]

\* pg.Pool.connect() rejecting.
ConnectFail(w) ==
    [w EXCEPT !.log = Append(@, Event("connect", NULL, Sql(""), FALSE, w))]

\* pg.PoolClient.release().
Release(w, c) ==
    [w EXCEPT !.free = @ \cup {c},
              !.log = Append(@, Event("release", c, Sql(""), TRUE, w))]

\* Effect on the server of a statement that succeeded on connection c
\* (c = NULL: pg.Pool.query, which runs outside any transaction block).
ServerApply(w, c, sql) ==
    IF c = NULL
    THEN IF sql.cls \in {"BEGIN", "COMMIT", "ROLLBACK"} THEN w
         ELSE [w EXCEPT !.applied = @ \cup {sql}]
    ELSE CASE sql.cls = "BEGIN" -> [w EXCEPT !.dbTx = @ \cup {c}]
           [] sql.cls = "COMMIT" ->
                [w EXCEPT !.applied = @ \cup w.pending[c],
                          !.pending[c] = {},
                          !.dbTx = @ \ {c}]
           [] sql.cls = "ROLLBACK" ->
                [w EXCEPT !.pending[c] = {}, !.dbTx = @ \ {c}]
           [] OTHER ->
                IF c \in w.dbTx
                THEN [w EXCEPT !.pending[c] = @ \cup {sql}]
                ELSE [w EXCEPT !.applied = @ \cup {sql}]

\* conn.query(sql): the call is recorded, takes effect when it succeeds, and
\* yields the rows or the thrown error.
ConnQuery(w, c, sql, out) ==
    Only({ [w |-> IF out.err = NoError THEN ServerApply(w1, c, sql) ELSE w1,
            err |-> out.err, rows |-> out.rows] :
           w1 \in {[w EXCEPT !.log =
                       Append(@, Event("query", c, sql, out.err = NoError, w))]} })

\* ------------------------------------------------------------ queryHandler
\* The message field: error.sqlMessage, or else the thrown error itself.
NoMessage == [object |-> FALSE, text |-> ""]

SuccessResult(rows) ==
    [keys |-> {"rows", "rowCount"}, code |-> "", message |-> NoMessage,
     query |-> Sql(""), values |-> <<>>, rows |-> rows]

DbErrorResult(err, query, values) ==
    [keys |-> {"code", "message", "query", "values"},
     code |-> IF err.hasCode THEN err.code ELSE "ER_INTERNAL_ERROR",
     message |-> IF err.hasSqlMessage
                 THEN [object |-> FALSE, text |-> err.sqlMessage]
                 ELSE [object |-> TRUE, text |-> err.text],
     query |-> query, values |-> values, rows |-> <<>>]

NoResult ==
    [keys |-> {}, code |-> "", message |-> NoMessage, query |-> Sql(""),
     values |-> <<>>, rows |-> <<>>]

\* try: the outcome of tryHandler, [w, err, rows]; onError: the world after the
\* errorHandler has run on try.w.  The catch block turns the error into data.
QueryHandler_Rethrow(query, values, try, onError) ==
    Only({ IF x.err = NoError
           THEN [w |-> x.w, raised |-> FALSE, err |-> NoError,
                 res |-> SuccessResult(x.rows)]
           ELSE [w |-> onError, raised |-> TRUE, err |-> x.err,
                 res |-> NoResult] : x \in {try} })

QueryHandler(query, values, try, onError) ==
    Only({ IF x.err = NoError
           THEN [w |-> x.w, raised |-> FALSE, err |-> NoError,
                 res |-> SuccessResult(x.rows)]
           ELSE [w |-> onError, raised |-> FALSE, err |-> x.err,
                 res |-> DbErrorResult(x.err, query, values)] : x \in {try} })

\* -------------------------------------------------------------- Transaction
TransactionEnd_KeepConn(w, t) ==
    Only({ IF x.txConn[t] # NULL THEN Release(x, x.txConn[t]) ELSE x :
           x \in {w} })

TransactionEnd(w, t) ==
    Only({ IF x.txConn[t] # NULL
           THEN [Release(x, x.txConn[t]) EXCEPT !.txConn[t] = NULL]
           ELSE x : x \in {w} })

TransactionBegin_Rebind(w, t, c, out) ==
    Only({ QueryHandler(BeginQuery, <<>>, try, try.w).w :
           try \in {ConnQuery([w EXCEPT !.txConn[t] = c], c, BeginQuery,
                              out)} })

TransactionBegin(w, t, c, out) ==
    Only({ IF x.txConn[t] # NULL
           THEN x
           ELSE Only({ QueryHandler(BeginQuery, <<>>, try, try.w).w :
                       try \in {ConnQuery([x EXCEPT !.txConn[t] = c], c,
                                          BeginQuery, out)} }) :
           x \in {w} })

TransactionCommit_ReleaseOnly(w, t, out) ==
    Only({ IF x.txConn[t] = NULL
           THEN x
           ELSE Only({ Release(y, y.txConn[t]) :
                       y \in {QueryHandler(CommitQuery, <<>>,
                                  ConnQuery(x, x.txConn[t], CommitQuery, out),
                                  x).w} }) :
           x \in {w} })

TransactionCommit(w, t, out) ==
    Only({ IF x.txConn[t] = NULL
           THEN x
           ELSE Only({ TransactionEnd(
                           QueryHandler(CommitQuery, <<>>, try, try.w).w, t) :
                       try \in {ConnQuery(x, x.txConn[t], CommitQuery, out)} }) :
           x \in {w} })

TransactionRollback_NoGuard(w, t, out) ==
    Only({ TransactionEnd(QueryHandler(RollbackQuery, <<>>, try, try.w).w, t) :
           try \in {ConnQuery(w, w.txConn[t], RollbackQuery, out)} })

TransactionRollback(w, t, out) ==
    Only({ IF x.txConn[t] = NULL
           THEN x
           ELSE Only({ TransactionEnd(
                           QueryHandler(RollbackQuery, <<>>, try, try.w).w, t) :
                       try \in {ConnQuery(x, x.txConn[t], RollbackQuery,
                                          out)} }) :
           x \in {w} })

\* --------------------------------------------------------------------- Pool
\* env: what the driver does during the call: conn (the connection connect()
\* hands out, NULL when it rejects), begin / stmt / rollback (outcomes of the
\* statements the call may issue).
TimeoutError == CHOOSE e \in DriverErrors : ~e.hasCode

\* The tryHandler closure of Pool.query.
PoolQueryTry_AlwaysConnect(w, t, query, values, env) ==
    IF t # NULL /\ env.conn = NULL
    THEN [w |-> ConnectFail(w), err |-> TimeoutError, rows |-> <<>>]
    ELSE Only({ ConnQuery(w1, IF t # NULL THEN w1.txConn[t] ELSE NULL, query,
                          env.stmt) :
                w1 \in {IF t # NULL
                        THEN TransactionBegin(Connect(w, env.conn), t,
                                              env.conn, env.begin)
                        ELSE w} })

PoolQueryTry(w, t, query, values, env) ==
    IF t # NULL /\ w.txConn[t] = NULL /\ env.conn = NULL
    THEN [w |-> ConnectFail(w), err |-> TimeoutError, rows |-> <<>>]
    ELSE Only({ ConnQuery(w1, IF t # NULL THEN w1.txConn[t] ELSE NULL, query,
                          env.stmt) :
                w1 \in {IF t # NULL /\ w.txConn[t] = NULL
                        THEN TransactionBegin(Connect(w, env.conn), t,
                                              env.conn, env.begin)
                        ELSE w} })

\* The errorHandler closure of Pool.query.
PoolQueryOnError_AnyFlag(w, t, env) ==
    IF t # NULL THEN TransactionRollback(w, t, env.rollback) ELSE w

PoolQueryOnError(w, t, env) ==
    IF t # NULL /\ txRoe[t]
    THEN TransactionRollback(w, t, env.rollback)
    ELSE w

PoolQuery(w, t, query, values, env) ==
    Only({ QueryHandler(query, values, try, PoolQueryOnError(try.w, t, env)) :
           try \in {PoolQueryTry(w, t, query, values, env)} })

\* Pool.transaction: connect() is awaited outside any try block.
PoolTransaction(w, t, env) ==
    IF env.conn = NULL
    THEN [w |-> ConnectFail(w), raised |-> TRUE, err |-> TimeoutError,
          res |-> NoResult]
    ELSE [w |-> TransactionBegin(Connect(w, env.conn), t, env.conn, env.begin),
          raised |-> FALSE, err |-> NoError, res |-> NoResult]

\* The driver behaviours that make a difference to a call on transaction t:
\* connect() and the opening statement matter only when t has to be bound,
\* the statement only when a connection was obtained, and the ROLLBACK only
\* when the statement fails on a rollbackOnError transaction.
Envs(w, t) ==
    LET binds == t # NULL /\ w.txConn[t] = NULL
    IN { e \in [conn : w.free \cup {NULL}, begin : {OkOut, FailOut},
                stmt : Outcomes, rollback : {OkOut, FailOut}] :
           /\ ~binds => e.conn = NULL /\ e.begin = OkOut
           /\ (binds /\ e.conn = NULL) => e.begin = OkOut /\ e.stmt = OkOut
           /\ (e.stmt.err = NoError \/ t = NULL \/ ~txRoe[t])
                  => e.rollback = OkOut }

\* ------------------------------------------------------------------- Script
\* A JavaScript object with string keys: its entries in insertion order.
ObjHas(obj, k) == \E i \in 1..Len(obj) : obj[i].key = k

ObjGet(obj, k) == obj[CHOOSE i \in 1..Len(obj) : obj[i].key = k].val

ObjSet(obj, k, v) ==
    IF ObjHas(obj, k)
    THEN [i \in 1..Len(obj) |->
             IF obj[i].key = k THEN [key |-> k, val |-> v] ELSE obj[i]]
    ELSE Append(obj, [key |-> k, val |-> v])

ObjValues_Reversed(obj) == [i \in 1..Len(obj) |-> obj[Len(obj) + 1 - i].val]

ObjValues(obj) == [i \in 1..Len(obj) |-> obj[i].val]

\* Object.keys(this.folder)
QueryTypes == <<"create", "drop", "drop_constraint", "schema", "alter">>

EmptyFolder ==
    [create |-> <<>>, drop |-> <<>>, drop_constraint |-> <<>>,
     schema |-> <<>>, alter |-> <<>>]

DropSchema(n) == [Sql("DROP SCHEMA") EXCEPT !.schema = n]
CreateSchema(n) == [Sql("CREATE SCHEMA") EXCEPT !.schema = n]

ScriptAddSchema_DropOnly(sc, n) ==
    LET cleared == [ty \in DOMAIN sc.folder |-> ObjSet(sc.folder[ty], n, <<>>)]
    IN [sc EXCEPT !.folder =
           [cleared EXCEPT !.schema = ObjSet(@, n, <<DropSchema(n)>>)]]

\* sc: the Script object, [folder, schema].
ScriptAddSchema(sc, n) ==
    LET cleared == [ty \in DOMAIN sc.folder |-> ObjSet(sc.folder[ty], n, <<>>)]
    IN [sc EXCEPT !.folder =
           [cleared EXCEPT !.schema =
               ObjSet(@, n, <<DropSchema(n), CreateSchema(n)>>)]]

ScriptHasSchema(sc, n) == \A ty \in DOMAIN sc.folder : ObjHas(sc.folder[ty], n)

ScriptSetSchema_AlwaysAdd(sc, n) == [ScriptAddSchema(sc, n) EXCEPT !.schema = n]

ScriptSetSchema(sc, n) ==
    [(IF ScriptHasSchema(sc, n) THEN sc ELSE ScriptAddSchema(sc, n))
        EXCEPT !.schema = n]

ScriptPush(sc, ty, query) ==
    [sc EXCEPT !.folder[ty] =
        ObjSet(@, sc.schema, Append(ObjGet(@, sc.schema), query))]

\* ---------------------------------------------------------------- Db.define
NoDefault == [kind |-> "undefined", text |-> ""]
NoColumn == ""

\* The column clause built for one entry of the definition body.
ColumnClause(key, val) ==
    [name |-> key, type |-> val.type,
     notNull |-> ~val.primaryKey /\ ~val.allowNull,
     primaryKey |-> val.primaryKey,
     unique |-> ~val.primaryKey /\ val.unique,
     default |->
        IF val.defaultValue.kind = "undefined" \/ val.defaultValue.text = ""
        THEN NoDefault
        ELSE IF val.defaultValue.kind = "boolean"
             THEN [kind |-> "bare",
                   text |-> IF val.defaultValue.text = "true" THEN "TRUE"
                            ELSE "FALSE"]
             ELSE IF val.defaultValue.kind = "string"
                  THEN [kind |-> "quoted", text |-> val.defaultValue.text]
                  ELSE [kind |-> "bare", text |-> val.defaultValue.text]]

\* pkColumn after the loop over the body: the last key marked primaryKey.
PkColumn(body) ==
    LET pks == {i \in 1..Len(body) : body[i].val.primaryKey}
    IN IF pks = {} THEN NoColumn
       ELSE body[CHOOSE i \in pks : \A j \in pks : j <= i].key

DropTable(n, tableName) ==
    [Sql("DROP TABLE") EXCEPT !.schema = n, !.table = tableName]

CreateTable(n, tableName, body) ==
    [Sql("CREATE TABLE") EXCEPT !.schema = n, !.table = tableName,
        !.defs = [i \in 1..Len(body) |-> ColumnClause(body[i].key, body[i].val)]]

SelectColumns(n, tableName, body) ==
    [Sql("SELECT") EXCEPT !.schema = n, !.table = tableName,
        !.cols = [i \in 1..Len(body) |-> body[i].key]]

\* The effect of define on the script and on syncScripts, and the Model.
Define(sc, scripts, tableName, body, schemaOption) ==
    LET n == IF schemaOption = "" THEN "public" ELSE schemaOption
        sc1 == ScriptSetSchema(sc, n)
        sc2 == ScriptPush(sc1, "drop", DropTable(n, tableName))
        sc3 == ScriptPush(sc2, "create", CreateTable(n, tableName, body))
    IN [script |-> sc3,
        syncScripts |-> Append(scripts, SelectColumns(n, tableName, body)),
        model |-> [tableName |-> tableName, schema |-> n,
                   pkColumn |-> PkColumn(body)]]

DropConstraint(m, name) ==
    [Sql("DROP CONSTRAINT") EXCEPT !.schema = m.schema, !.table = m.tableName,
        !.name = name]

AddConstraint(m, target, name, foreignKey, referenceKey) ==
    [Sql("ADD CONSTRAINT") EXCEPT !.schema = m.schema, !.table = m.tableName,
        !.name = name, !.fk = foreignKey, !.refSchema = target.schema,
        !.refTable = target.tableName, !.refKey = referenceKey]

\* model.setForeignKey(target, foreignKey, {constraintName, referenceKey});
\* "" stands for an option that is not given.
SetForeignKey(sc, m, target, foreignKey, constraintName, referenceKey) ==
    LET name == IF constraintName = ""
                THEN <<m.tableName, target.tableName>>
                ELSE <<constraintName>>
        key == IF referenceKey = "" THEN foreignKey ELSE referenceKey
    IN ScriptPush(ScriptPush(sc, "drop_constraint", DropConstraint(m, name)),
                  "alter", AddConstraint(m, target, name, foreignKey, key))

\* ------------------------------------------------------------------ Db.sync
Concat(seqs) ==
    LET F[i \in 0..Len(seqs)] == IF i = 0 THEN <<>> ELSE F[i - 1] \o seqs[i]
    IN F[Len(seqs)]

Sequence == <<"drop_constraint", "drop", "schema", "create", "alter">>

\* The statements of the three nested loops of sync, in the order issued.
SyncSequence_SchemaMajor(f) ==
    LET names == [i \in 1..Len(f.schema) |-> f.schema[i].key]
    IN Concat([n \in 1..Len(names) |->
           Concat([k \in 1..Len(Sequence) |->
               ObjGet(f[Sequence[k]], names[n])])])

SyncSequence(f) ==
    Concat([k \in 1..Len(Sequence) |-> Concat(ObjValues(f[Sequence[k]]))])

IsSuccess_AtMostTwo(response) ==
    Cardinality(response.keys \cap {"code", "query", "values", "message"}) <= 2

IsSuccess(response) ==
    Cardinality(response.keys \cap {"code", "query", "values", "message"}) < 2

\* ------------------------------------------------------------------ calls
\* The record of a top-level call: its arguments, the state it started in,
\* and how it came back.
\* What a Model operation hands back: null, one row, a list of rows, or
\* undefined (rows[0] of an empty list).
NoValue == [kind |-> "", rows |-> <<>>]
NullValue == [kind |-> "null", rows |-> <<>>]

\* The arguments of a Model operation: pk, body and options.where.
NoInput ==
    [pk |-> 0, body |-> <<>>, where |-> [def |-> FALSE, entries |-> <<>>]]

Call(op, t, query, values, arg, r) ==
    [op |-> op, tx |-> t, query |-> query, values |-> values, arg |-> arg,
     pre |-> IF t = NULL THEN NULL ELSE txConn[t], preFree |-> free,
     wasEnded |-> t \in ended,
     raised |-> r.raised, err |-> r.err, res |-> r.res,
     model |-> 0, input |-> NoInput, ret |-> NoValue,
     whereAfter |-> NoValue]

NoCall ==
    [op |-> "", tx |-> NULL, query |-> Sql(""), values |-> <<>>,
     arg |-> NULL, pre |-> NULL, preFree |-> {}, wasEnded |-> FALSE,
     raised |-> FALSE, err |-> NoError, res |-> NoResult,
     model |-> 0, input |-> NoInput, ret |-> NoValue,
     whereAfter |-> NoValue]

Returned(w) == [w |-> w, raised |-> FALSE, err |-> NoError, res |-> NoResult]

\* A top-level call starts with an empty record of driver calls and effects.
Fresh == [World EXCEPT !.log = <<>>, !.applied = {}]

Install(w) ==
    /\ free' = w.free
    /\ txConn' = w.txConn
    /\ dbTx' = w.dbTx
    /\ pending' = w.pending
    /\ applied' = w.applied
    /\ log' = w.log
    /\ ended' = ended \cup {w.log[i].tx : i \in {j \in 1..Len(w.log) :
                                                   w.log[j].ev = "release"}}

UserQueries == {Sql("SELECT")}
ValueLists == {<<>>, <<7>>}

\* new Transaction(options)
NewTransaction(t, roe) ==
    /\ t \notin txMade
    /\ \A u \in Txs : u < t => u \in txMade
    /\ txMade' = txMade \cup {t}
    /\ txRoe' = [txRoe EXCEPT ![t] = roe]
    /\ last' = Call("new", t, Sql(""), <<>>, NULL, Returned(World))
    /\ UNCHANGED <<free, txConn, dbTx, pending, applied, ended, log>>
    /\ UNCHANGED <<scriptVars, syncVars>>
    /\ UNCHANGED dataVars
    /\ UNCHANGED appVars

\* pool.transaction(options)
PoolTransactionCall(t, roe, env) ==
    /\ t \notin txMade
    /\ \A u \in Txs : u < t => u \in txMade
    /\ \E r \in {PoolTransaction(Fresh, t, env)} :
          /\ Install(r.w)
          /\ txMade' = IF r.raised THEN txMade ELSE txMade \cup {t}
          /\ txRoe' = [txRoe EXCEPT ![t] = roe]
          /\ last' = Call("transaction", t, Sql(""), <<>>, env.conn, r)
    /\ UNCHANGED <<scriptVars, syncVars>>
    /\ UNCHANGED dataVars
    /\ UNCHANGED appVars

\* pool.query(query, {values, transaction})
PoolQueryCall(t, query, values, env) ==
    /\ t \in txMade \cup {NULL}
    /\ \E r \in {PoolQuery(Fresh, t, query, values, env)} :
          /\ Install(r.w)
          /\ last' = Call("query", t, query, values, env.conn, r)
    /\ UNCHANGED <<txMade, txRoe, scriptVars, syncVars>>
    /\ UNCHANGED dataVars
    /\ UNCHANGED appVars

\* transaction.begin(c), c a connection the caller took from the pool
BeginCall(t, c, out) ==
    /\ t \in txMade
    /\ c \in free
    /\ \E w \in {TransactionBegin(Connect(Fresh, c), t, c, out)} : Install(w)
    /\ last' = Call("begin", t, Sql(""), <<>>, c, Returned(World))
    /\ UNCHANGED <<txMade, txRoe, scriptVars, syncVars>>
    /\ UNCHANGED dataVars
    /\ UNCHANGED appVars

\* transaction.commit()
CommitCall(t, out) ==
    /\ t \in txMade
    /\ \E w \in {TransactionCommit(Fresh, t, out)} : Install(w)
    /\ last' = Call("commit", t, Sql(""), <<>>, NULL, Returned(World))
    /\ UNCHANGED <<txMade, txRoe, scriptVars, syncVars>>
    /\ UNCHANGED dataVars
    /\ UNCHANGED appVars

\* transaction.rollback()
RollbackCall(t, out) ==
    /\ t \in txMade
    /\ \E w \in {TransactionRollback(Fresh, t, out)} : Install(w)
    /\ last' = Call("rollback", t, Sql(""), <<>>, NULL, Returned(World))
    /\ UNCHANGED <<txMade, txRoe, scriptVars, syncVars>>
    /\ UNCHANGED dataVars
    /\ UNCHANGED appVars

NoCb ==
    [calls |-> 0, at |-> 0, conn |-> NULL, seeds |-> 0, ret |-> NULL,
     retAt |-> 0]

InitPool ==
    /\ free = Conns
    /\ txMade = {}
    /\ txConn = [t \in Txs |-> NULL]
    /\ txRoe = [t \in Txs |-> FALSE]
    /\ dbTx = {}
    /\ pending = [c \in Conns |-> {}]
    /\ applied = {}
    /\ ended = {}
    /\ log = <<>>
    /\ last = NoCall

InitScript ==
    /\ folder = EmptyFolder
    /\ schema = ""
    /\ syncScripts = <<>>
    /\ models = <<>>
    /\ owner = <<>>

InitSync ==
    /\ pc = "idle"
    /\ idx = 0
    /\ syncTx = NULL
    /\ cb = NoCb

\* A new Placeholder, and an empty table whose SERIAL sequence starts at 1.
InitData ==
    /\ placeholder = [counter |-> 0]
    /\ emitted = <<>>
    /\ store = [rows |-> <<>>, serial |-> 1]

\* The Db instances of the process; sync is called on the first one.
Dbs == {1, 2}
SyncingDb == 1

\* The callers that share one Transaction.
Procs == {1, 2}
NoProc ==
    [pc |-> "idle", conn |-> NULL, on |-> NULL, unbound |-> FALSE, res |-> ""]
NoAcl ==
    [pc |-> "idle", op |-> "", kind |-> "", own |-> FALSE, tx |-> NULL,
     alter |-> FALSE, left |-> 0, method |-> "", rows |-> <<>>,
     flags |-> <<>>, results |-> <<>>, status |-> 200, next |-> FALSE,
     outcome |-> ""]

InitApp ==
    /\ proc = [p \in Procs |-> NoProc]
    /\ acl = NoAcl

Init == InitPool /\ InitScript /\ InitSync /\ InitData /\ InitApp

\* ------------------------------------------------- defining and synchronising
SchemaOptions == {"", "app"}

Column(type, allowNull, primaryKey, unique, defaultValue) ==
    [type |-> type, allowNull |-> allowNull, primaryKey |-> primaryKey,
     unique |-> unique, defaultValue |-> defaultValue]

\* The tables the application defines: one with a primary key, one without.
Tables ==
    { [name |-> "a",
       body |-> << [key |-> "id",
                    val |-> Column("SERIAL", FALSE, TRUE, FALSE, NoDefault)],
                   [key |-> "x",
                    val |-> Column("INTEGER", FALSE, FALSE, FALSE,
                                   [kind |-> "number", text |-> "0"])] >>],
      [name |-> "b",
       body |-> << [key |-> "x",
                    val |-> Column("INTEGER", TRUE, FALSE, TRUE,
                                   NoDefault)] >>] }

Script == [folder |-> folder, schema |-> schema]

\* db.define(tableName, body, {schema})
DefineCall(db, tableName, body, schemaOption) ==
    /\ pc = "idle"
    /\ Len(models) < MaxDefs
    /\ LET d == Define(Script, syncScripts, tableName, body, schemaOption)
       IN /\ folder' = d.script.folder
          /\ schema' = d.script.schema
          /\ syncScripts' = d.syncScripts
          /\ models' = Append(models, d.model)
    /\ owner' = Append(owner, db)
    /\ UNCHANGED <<poolVars, log, last, syncVars>>
    /\ UNCHANGED dataVars
    /\ UNCHANGED appVars

\* models[i].setForeignKey(models[j], foreignKey, {constraintName})
SetForeignKeyCall(i, j, foreignKey, constraintName) ==
    /\ pc = "idle"
    /\ Len(folder.alter) > 0
    /\ Len(Concat(ObjValues(folder.alter))) < MaxFks
    /\ i \in 1..Len(models) /\ j \in 1..Len(models)
    /\ LET sc == SetForeignKey(Script, models[i], models[j], foreignKey,
                               constraintName, "")
       IN /\ folder' = sc.folder
          /\ schema' = sc.schema
    /\ UNCHANGED <<poolVars, log, last, syncScripts, models, owner, syncVars>>
    /\ UNCHANGED dataVars
    /\ UNCHANGED appVars

SeedQuery == Sql("INSERT")
SyncOutcomes == {OkOut, FailOut}
\* Idle connections are interchangeable: connect() hands out the first one.
FirstFree == {c \in free : \A d \in free : c <= d}
SyncEnvs(t) ==
    {e \in Envs(World, t) :
        e.stmt \in SyncOutcomes /\ e.conn \in FirstFree \cup {NULL}}

\* sync(options) up to its first await: the verification path, or the
\* transaction of the alter path.
SyncStart(alter, env) ==
    /\ pc = "idle"
    /\ last' = Call("sync", NULL, Sql(""), <<>>, NULL, Returned(World))
    /\ idx' = 0
    /\ cb' = NoCb
    /\ IF ~alter
       THEN /\ pc' = "select"
            /\ Install(Fresh)
            /\ UNCHANGED <<txMade, txRoe, syncTx>>
       ELSE \E t \in {u \in Txs \ txMade : \A v \in Txs \ txMade : u <= v} :
            \E r \in {PoolTransaction(Fresh, t, env)} :
               /\ Install(r.w)
               /\ txRoe' = [txRoe EXCEPT ![t] = TRUE]
               /\ txMade' = txMade \cup {t}
               /\ syncTx' = t
               /\ pc' = IF r.raised THEN "raised" ELSE "ddl"
    /\ UNCHANGED scriptVars
    /\ UNCHANGED dataVars
    /\ UNCHANGED appVars

\* One iteration of the verification loop.
SyncSelect_StopOnFailure(out) ==
    /\ pc = "select"
    /\ idx < Len(syncScripts)
    /\ \E r \in {PoolQuery(World, NULL, syncScripts[idx + 1], <<>>,
                   [conn |-> NULL, begin |-> OkOut, stmt |-> out,
                    rollback |-> OkOut])} :
          /\ Install(r.w)
          /\ pc' = IF IsSuccess(r.res) THEN "select" ELSE "done"
    /\ idx' = idx + 1
    /\ UNCHANGED <<txMade, txRoe, last, scriptVars, syncTx, cb>>
    /\ UNCHANGED dataVars
    /\ UNCHANGED appVars

SyncSelect(out) ==
    /\ pc = "select"
    /\ idx < Len(syncScripts)
    /\ \E r \in {PoolQuery(World, NULL, syncScripts[idx + 1], <<>>,
                   [conn |-> NULL, begin |-> OkOut, stmt |-> out,
                    rollback |-> OkOut])} : Install(r.w)
    /\ idx' = idx + 1
    /\ UNCHANGED <<txMade, txRoe, last, scriptVars, pc, syncTx, cb>>
    /\ UNCHANGED dataVars
    /\ UNCHANGED appVars

SyncSelectDone ==
    /\ pc = "select"
    /\ idx = Len(syncScripts)
    /\ pc' = "done"
    /\ UNCHANGED <<poolVars, log, last, scriptVars, idx, syncTx, cb>>
    /\ UNCHANGED dataVars
    /\ UNCHANGED appVars

\* One iteration of the innermost loop of the alter path.
SyncStep_NoReturn(env) ==
    /\ pc = "ddl"
    /\ idx < Len(SyncSequence(folder))
    /\ \E r \in {PoolQuery(World, syncTx, SyncSequence(folder)[idx + 1], <<>>,
                          env)} :
          /\ Install(r.w)
          /\ pc' = "ddl"
          /\ idx' = idx + 1
    /\ UNCHANGED <<txMade, txRoe, last, scriptVars, syncTx, cb>>
    /\ UNCHANGED dataVars
    /\ UNCHANGED appVars

SyncStep(env) ==
    /\ pc = "ddl"
    /\ idx < Len(SyncSequence(folder))
    /\ \E r \in {PoolQuery(World, syncTx, SyncSequence(folder)[idx + 1], <<>>,
                          env)} :
          /\ Install(r.w)
          /\ pc' = IF IsSuccess(r.res) THEN "ddl" ELSE "aborted"
          /\ idx' = IF IsSuccess(r.res) THEN idx + 1 ELSE idx
    /\ UNCHANGED <<txMade, txRoe, last, scriptVars, syncTx, cb>>
    /\ UNCHANGED dataVars
    /\ UNCHANGED appVars

\* The loops are over: onSuccessAlter(transaction) is called.
SyncInvoke_Early ==
    /\ pc = "ddl"
    /\ idx + 1 >= Len(SyncSequence(folder))
    /\ pc' = "callback"
    /\ cb' = [cb EXCEPT !.calls = @ + 1, !.at = Len(log),
                        !.conn = txConn[syncTx]]
    /\ UNCHANGED <<poolVars, log, last, scriptVars, idx, syncTx>>
    /\ UNCHANGED dataVars
    /\ UNCHANGED appVars

SyncInvoke ==
    /\ pc = "ddl"
    /\ idx = Len(SyncSequence(folder))
    /\ pc' = "callback"
    /\ cb' = [cb EXCEPT !.calls = @ + 1, !.at = Len(log),
                        !.conn = txConn[syncTx]]
    /\ UNCHANGED <<poolVars, log, last, scriptVars, idx, syncTx>>
    /\ UNCHANGED dataVars
    /\ UNCHANGED appVars

\* The callback writes seed data through the transaction it was given.
CallbackQuery(env) ==
    /\ pc = "callback"
    /\ cb.seeds < MaxSeed
    /\ \E r \in {PoolQuery(World, syncTx, SeedQuery, <<1>>, env)} : Install(r.w)
    /\ cb' = [cb EXCEPT !.seeds = @ + 1]
    /\ UNCHANGED <<txMade, txRoe, last, scriptVars, pc, idx, syncTx>>
    /\ UNCHANGED dataVars
    /\ UNCHANGED appVars

CallbackReturn ==
    /\ pc = "callback"
    /\ pc' = "commit"
    /\ cb' = [cb EXCEPT !.ret = txConn[syncTx], !.retAt = Len(log)]
    /\ UNCHANGED <<poolVars, log, last, scriptVars, idx, syncTx>>
    /\ UNCHANGED dataVars
    /\ UNCHANGED appVars

CallbackRaise ==
    /\ pc = "callback"
    /\ pc' = "raised"
    /\ UNCHANGED <<poolVars, log, last, scriptVars, idx, syncTx, cb>>
    /\ UNCHANGED dataVars
    /\ UNCHANGED appVars

\* await transaction.commit()
SyncCommit(out) ==
    /\ pc = "commit"
    /\ \E w \in {TransactionCommit(World, syncTx, out)} : Install(w)
    /\ pc' = "done"
    /\ UNCHANGED <<txMade, txRoe, last, scriptVars, idx, syncTx, cb>>
    /\ UNCHANGED dataVars
    /\ UNCHANGED appVars

NextSync ==
    \/ \E tb \in Tables, o \in SchemaOptions :
           DefineCall(SyncingDb, tb.name, tb.body, o)
    \/ \E i \in 1..MaxDefs, j \in {1}, k \in {"x"}, c \in {""} :
           SetForeignKeyCall(i, j, k, c)
    \/ \E a \in BOOLEAN :
           \E e \in {x \in [conn : FirstFree \cup {NULL}, begin : {OkOut, FailOut},
                           stmt : {OkOut}, rollback : {OkOut}] :
                        (~a \/ x.conn = NULL) => x.begin = OkOut /\ x.conn = NULL} :
               SyncStart(a, e)
    \/ \E o \in SyncOutcomes : SyncSelect(o)
    \/ SyncSelectDone
    \/ \E e \in SyncEnvs(syncTx) : SyncStep(e)
    \/ SyncInvoke
    \/ \E e \in SyncEnvs(syncTx) : CallbackQuery(e)
    \/ CallbackReturn
    \/ CallbackRaise
    \/ \E o \in {OkOut, FailOut} : SyncCommit(o)

SpecSync == Init /\ [][NextSync]_vars

\* The pool and Transaction API driven by a caller, one call at a time.
NextTx ==
    \/ \E t \in Txs, roe \in BOOLEAN : NewTransaction(t, roe)
    \/ \E t \in Txs, roe \in BOOLEAN :
           \E e \in {x \in Envs(World, t) : x.stmt = OkOut} :
               PoolTransactionCall(t, roe, e)
    \/ \E t \in txMade \cup {NULL}, q \in UserQueries, v \in ValueLists :
           \E e \in Envs(World, t) : PoolQueryCall(t, q, v, e)
    \/ \E t \in Txs, c \in Conns, o \in {OkOut, FailOut} : BeginCall(t, c, o)
    \/ \E t \in Txs, o \in {OkOut, FailOut} : CommitCall(t, o)
    \/ \E t \in Txs, o \in {OkOut, FailOut} : RollbackCall(t, o)

SpecTx == Init /\ [][NextTx]_vars

\* -------------------------------------------------------------- Placeholder
\* generate(count): the marks $counter+1 .. $counter+count; the counter stays.
GenerateCount(counter, count) ==
    [text |-> [i \in 1..count |-> counter + i], counter |-> counter]

GenerateObject_NoAdvance(counter, obj) ==
    [text |-> [i \in 1..Len(obj) |-> [key |-> obj[i].key, mark |-> counter + i]],
     counter |-> counter]

\* generate(obj): key=$k for each key, the counter advancing once per key.
GenerateObject(counter, obj) ==
    [text |-> [i \in 1..Len(obj) |-> [key |-> obj[i].key, mark |-> counter + i]],
     counter |-> counter + Len(obj)]

\* An optional object argument: def is FALSE for undefined.
Undefined == [def |-> FALSE, entries |-> <<>>]
Obj(entries) == [def |-> TRUE, entries |-> entries]

PlaceholderValues_LastFirst(objs) ==
    Concat([i \in 1..Len(objs) |->
        IF objs[Len(objs) + 1 - i].def
        THEN [k \in 1..Len(objs[Len(objs) + 1 - i].entries) |->
                 objs[Len(objs) + 1 - i].entries[k].val]
        ELSE <<>>])

\* values(objs)
PlaceholderValues(objs) ==
    Concat([i \in 1..Len(objs) |->
        IF objs[i].def
        THEN [k \in 1..Len(objs[i].entries) |-> objs[i].entries[k].val]
        ELSE <<>>])

\* Arguments of the generate calls made on the instance.
Counts == 0..2
Objects ==
    {<<>>, <<[key |-> "x", val |-> 1]>>,
     <<[key |-> "x", val |-> 1], [key |-> "y", val |-> 2]>>}

\* placeholder.generate(count)
GeneratePositional(count) ==
    /\ Len(emitted) < MaxGen
    /\ \E g \in {GenerateCount(placeholder.counter, count)} :
          /\ placeholder' = [counter |-> g.counter]
          /\ emitted' = Append(emitted,
                 [mode |-> "count", n |-> count, marks |-> g.text,
                  before |-> placeholder.counter, after |-> g.counter])
    /\ UNCHANGED <<poolVars, log, last, scriptVars, syncVars, store>>
    /\ UNCHANGED appVars

\* placeholder.generate(obj)
GenerateAssignment(obj) ==
    /\ Len(emitted) < MaxGen
    /\ \E g \in {GenerateObject(placeholder.counter, obj)} :
          /\ placeholder' = [counter |-> g.counter]
          /\ emitted' = Append(emitted,
                 [mode |-> "object", n |-> Len(obj),
                  marks |-> [i \in 1..Len(g.text) |-> g.text[i].mark],
                  before |-> placeholder.counter, after |-> g.counter])
    /\ UNCHANGED <<poolVars, log, last, scriptVars, syncVars, store>>
    /\ UNCHANGED appVars

NextPlaceholder ==
    \/ \E n \in Counts : GeneratePositional(n)
    \/ \E o \in Objects : GenerateAssignment(o)

SpecPlaceholder == Init /\ [][NextPlaceholder]_vars

\* -------------------------------------------------------------------- Model
\* The callback of a Model operation that runs one statement: it throws on a
\* Failure (and, for the by-pk operations, on an empty result).
RunModelQuery(w, t, query, values, env, byPk, single) ==
    Only({ [w |-> r.w, res |-> r.res, query |-> query, values |-> values,
            threw |-> \/ ~IsSuccess(r.res)
                      \/ (byPk /\ Len(r.res.rows) = 0),
            ret |-> IF single
                    THEN IF Len(r.res.rows) = 0
                         THEN [kind |-> "undefined", rows |-> <<>>]
                         ELSE [kind |-> "row", rows |-> <<r.res.rows[1]>>]
                    ELSE [kind |-> "rows", rows |-> r.res.rows]] :
           r \in {PoolQuery(w, t, query, values, env)} })

\* A callback that throws before building a statement.
ThrowBeforeQuery(w) ==
    [w |-> w, res |-> NoResult, query |-> Sql(""), values |-> <<>>,
     threw |-> TRUE, ret |-> NoValue]

ModelHandler_Rethrow(c) ==
    Only({ [w |-> x.w, res |-> x.res, query |-> x.query, values |-> x.values,
            err |-> NoError, raised |-> x.threw,
            ret |-> IF x.threw THEN NoValue ELSE x.ret] : x \in {c} })

\* modelHandler: whatever the callback throws is logged and becomes null.
ModelHandler(c) ==
    Only({ [w |-> x.w, res |-> x.res, query |-> x.query, values |-> x.values,
            err |-> NoError, raised |-> FALSE,
            ret |-> IF x.threw THEN NullValue ELSE x.ret] : x \in {c} })

Target(cls, m) == [Sql(cls) EXCEPT !.schema = m.schema, !.table = m.tableName]

WhereClause(counter, where) ==
    IF where.def THEN GenerateObject(counter, where.entries).text ELSE <<>>

ModelCreate(w, m, body, t, env) ==
    LET keys == [i \in 1..Len(body) |-> body[i].key]
        values == [i \in 1..Len(body) |-> body[i].val]
        query == [Target("INSERT", m) EXCEPT !.cols = keys,
                     !.marks = GenerateCount(0, Len(values)).text]
    IN ModelHandler(RunModelQuery(w, t, query, values, env, FALSE, TRUE))

ModelFind(w, m, where, t, env) ==
    LET query == [Target("SELECT *", m) EXCEPT !.where = WhereClause(0, where)]
    IN ModelHandler(RunModelQuery(w, t, query, PlaceholderValues(<<where>>),
                                  env, FALSE, FALSE))

ModelUpdate(w, m, body, where, t, env) ==
    LET set == GenerateObject(0, body)
        query == [Target("UPDATE", m) EXCEPT !.set = set.text,
                     !.where = WhereClause(set.counter, where)]
    IN ModelHandler(RunModelQuery(w, t, query,
           PlaceholderValues(<<Obj(body), where>>), env, FALSE, FALSE))

ModelDelete(w, m, where, t, env) ==
    LET query == [Target("DELETE", m) EXCEPT !.where = WhereClause(0, where)]
    IN ModelHandler(RunModelQuery(w, t, query, PlaceholderValues(<<where>>),
                                  env, FALSE, FALSE))

PkWhere_IgnorePk(m, where, pk) ==
    Obj(IF where.def THEN where.entries ELSE <<>>)

\* options.where ?? {} with where[pkColumn] = pk assigned.
PkWhere(m, where, pk) ==
    Obj(ObjSet(IF where.def THEN where.entries ELSE <<>>, m.pkColumn, pk))

\* The object the caller passed as options.where, as it is after a call:
\* the by-pk operations build their where from that same object and assign
\* where[pkColumn] = pk on it; the other operations only read it.
CallerWhere(op, m, pk, where) ==
    IF op \in {"findByPk", "updateByPk", "deleteByPk"}
           /\ m.pkColumn # NoColumn /\ where.def
    THEN PkWhere(m, where, pk)
    ELSE where

ModelFindByPk_NoPkCheck(w, m, pk, where, t, env) ==
    LET wh == PkWhere(m, where, pk)
        query == [Target("SELECT *", m) EXCEPT
                     !.where = GenerateObject(0, wh.entries).text]
    IN ModelHandler(RunModelQuery(w, t, query, PlaceholderValues(<<wh>>),
                                  env, TRUE, TRUE))

ModelFindByPk(w, m, pk, where, t, env) ==
    IF m.pkColumn = NoColumn
    THEN ModelHandler(ThrowBeforeQuery(w))
    ELSE LET wh == PkWhere(m, where, pk)
             query == [Target("SELECT *", m) EXCEPT
                          !.where = GenerateObject(0, wh.entries).text]
         IN ModelHandler(RunModelQuery(w, t, query, PlaceholderValues(<<wh>>),
                                       env, TRUE, TRUE))

ModelUpdateByPk(w, m, pk, body, where, t, env) ==
    IF m.pkColumn = NoColumn
    THEN ModelHandler(ThrowBeforeQuery(w))
    ELSE LET wh == PkWhere(m, where, pk)
             set == GenerateObject(0, body)
             query == [Target("UPDATE", m) EXCEPT !.set = set.text,
                          !.where = GenerateObject(set.counter, wh.entries).text]
         IN ModelHandler(RunModelQuery(w, t, query,
                PlaceholderValues(<<Obj(body), wh>>), env, TRUE, TRUE))

ModelDeleteByPk(w, m, pk, where, t, env) ==
    IF m.pkColumn = NoColumn
    THEN ModelHandler(ThrowBeforeQuery(w))
    ELSE LET wh == PkWhere(m, where, pk)
             query == [Target("DELETE", m) EXCEPT
                          !.where = GenerateObject(0, wh.entries).text]
         IN ModelHandler(RunModelQuery(w, t, query, PlaceholderValues(<<wh>>),
                                       env, TRUE, TRUE))

\* ---------------------------------------------------------- using the models
ModelBodies ==
    {<<[key |-> "x", val |-> 1]>>,
     <<[key |-> "id", val |-> 6], [key |-> "x", val |-> 1]>>}
Wheres ==
    {Undefined, Obj(<<[key |-> "x", val |-> 2]>>),
     Obj(<<[key |-> "id", val |-> 4], [key |-> "x", val |-> 2]>>)}
PkValues == {5}
ModelOps ==
    {"create", "find", "update", "delete", "findByPk", "updateByPk",
     "deleteByPk"}
ByPkOps == {"findByPk", "updateByPk", "deleteByPk"}

\* The operation op of models[i], called with the given arguments.
ModelOp(op, w, m, pk, body, where, t, env) ==
    CASE op = "create" -> ModelCreate(w, m, body, t, env)
      [] op = "find" -> ModelFind(w, m, where, t, env)
      [] op = "update" -> ModelUpdate(w, m, body, where, t, env)
      [] op = "delete" -> ModelDelete(w, m, where, t, env)
      [] op = "findByPk" -> ModelFindByPk(w, m, pk, where, t, env)
      [] op = "updateByPk" -> ModelUpdateByPk(w, m, pk, body, where, t, env)
      [] op = "deleteByPk" -> ModelDeleteByPk(w, m, pk, where, t, env)

\* The statement of a Model operation returns no, one or two rows, or fails.
ModelOutcomes == {[err |-> NoError, rows |-> r] : r \in RowSets} \cup {FailOut}
ModelEnvs(t) ==
    {e \in Envs(World, t) :
        /\ e.stmt \in ModelOutcomes
        /\ e.begin = OkOut /\ e.rollback = OkOut
        /\ e.conn \in FirstFree \cup {NULL}}

ModelCall(op, i, pk, body, where, t, env) ==
    /\ i \in 1..Len(models)
    /\ t \in txMade \cup {NULL}
    /\ \E r \in {ModelOp(op, Fresh, models[i], pk, body, where, t, env)} :
          /\ Install(r.w)
          /\ last' = [Call(op, t, r.query, r.values, NULL, r) EXCEPT
                         !.model = i, !.ret = r.ret,
                         !.input = [pk |-> pk, body |-> body,
                                    where |-> where],
                         !.whereAfter =
                             CallerWhere(op, models[i], pk, where)]
    /\ UNCHANGED <<txMade, txRoe, scriptVars, syncVars>>
    /\ UNCHANGED dataVars
    /\ UNCHANGED appVars

\* The calls the application makes: every operation on the table with a
\* primary key, with the arguments the operation takes (create takes no
\* options.where, find and delete no body), and on the table without one
\* the operations whose outcome depends on the primary key, and find.
TakesBody == {"create", "update", "updateByPk"}
ModelRequests ==
    {q \in [op : ModelOps, model : {1}, body : ModelBodies \cup {<<>>},
            where : Wheres] :
        /\ (q.body = <<>>) <=> (q.op \notin TakesBody)
        /\ q.op = "create" => q.where = Undefined}
    \cup
    {q \in [op : ByPkOps \cup {"find"}, model : {2},
            body : {CHOOSE b \in ModelBodies : Len(b) = 1, <<>>},
            where : {Undefined}] :
        (q.body = <<>>) <=> (q.op \notin TakesBody)}

\* The application has defined its tables, in the default schema.
InitDefined ==
    LET a == CHOOSE tb \in Tables : tb.name = "a"
        b == CHOOSE tb \in Tables : tb.name = "b"
        d1 == Define([folder |-> EmptyFolder, schema |-> ""], <<>>,
                     a.name, a.body, "")
        d2 == Define(d1.script, d1.syncScripts, b.name, b.body, "")
    IN /\ folder = d2.script.folder
       /\ schema = d2.script.schema
       /\ syncScripts = d2.syncScripts
       /\ models = <<d1.model, d2.model>>
       /\ owner = <<SyncingDb, SyncingDb>>

InitModel == InitPool /\ InitDefined /\ InitSync /\ InitData /\ InitApp

\* Model operations take at most one Transaction as options.transaction.
ModelTxs == {1}

NextModel ==
    \/ \E t \in ModelTxs, roe \in BOOLEAN : NewTransaction(t, roe)
    \/ \E q \in ModelRequests, pk \in PkValues, t \in txMade \cup {NULL} :
           \E e \in ModelEnvs(t) :
               ModelCall(q.op, q.model, pk, q.body, q.where, t, e)
    \/ \E t \in ModelTxs, o \in {OkOut, FailOut} : CommitCall(t, o)

SpecModel == InitModel /\ [][NextModel]_vars

\* ------------------------------------------------- the models on a table
\* The server's side of conn.query for the table of models[1]: what
\* PostgreSQL does with the four statements the Model operations build.
SqlNull == -1
TableColumns ==
    LET tb == CHOOSE tb \in Tables : tb.name = models[1].tableName
    IN [i \in 1..Len(tb.body) |-> ColumnClause(tb.body[i].key, tb.body[i].val)]

\* The value of a column the INSERT does not name.
ColumnDefault(col, st) ==
    IF col.type = "SERIAL" THEN st.serial
    ELSE IF col.default # NoDefault /\ col.default.text = "0" THEN 0
         ELSE SqlNull

Pick(seq, keep) ==
    LET F[i \in 0..Len(seq)] ==
            IF i = 0 THEN <<>>
            ELSE IF i \in keep THEN Append(F[i - 1], seq[i]) ELSE F[i - 1]
    IN F[Len(seq)]

InsertedRow(st, q, v) ==
    [i \in 1..Len(TableColumns) |->
        [key |-> TableColumns[i].name,
         val |-> IF \E j \in 1..Len(q.cols) : q.cols[j] = TableColumns[i].name
                 THEN v[q.marks[CHOOSE j \in 1..Len(q.cols) :
                                   q.cols[j] = TableColumns[i].name]]
                 ELSE ColumnDefault(TableColumns[i], st)]]

TakesSerial(q) ==
    \E i \in 1..Len(TableColumns) :
        /\ TableColumns[i].type = "SERIAL"
        /\ \A j \in 1..Len(q.cols) : q.cols[j] # TableColumns[i].name

Matching(st, q, v) ==
    {i \in 1..Len(st.rows) :
        \A k \in 1..Len(q.where) :
            ObjGet(st.rows[i], q.where[k].key) = v[q.where[k].mark]}

Assigned(row, q, v) ==
    [i \in 1..Len(row) |->
        IF \E k \in 1..Len(q.set) : q.set[k].key = row[i].key
        THEN [key |-> row[i].key,
              val |-> v[q.set[CHOOSE k \in 1..Len(q.set) :
                                 q.set[k].key = row[i].key].mark]]
        ELSE row[i]]

UniqueKeys(rows) ==
    \A i, j \in 1..Len(rows) :
        ObjGet(rows[i], models[1].pkColumn) = ObjGet(rows[j], models[1].pkColumn)
            => i = j

DuplicateKey == CHOOSE e \in DriverErrors : e.hasSqlMessage

\* st: the table, [rows, serial]; the result is the table afterwards and
\* the outcome of conn.query.
ServerExec(st, q, v) ==
    CASE q.cls = "INSERT" ->
           LET st1 == IF TakesSerial(q)
                      THEN [st EXCEPT !.serial = @ + 1] ELSE st
               rows == Append(st.rows, InsertedRow(st, q, v))
           IN IF UniqueKeys(rows)
              THEN [store |-> [st1 EXCEPT !.rows = rows],
                    out |-> [err |-> NoError,
                             rows |-> <<InsertedRow(st, q, v)>>]]
              ELSE [store |-> st1, out |-> [err |-> DuplicateKey, rows |-> <<>>]]
      [] q.cls = "SELECT *" ->
           [store |-> st,
            out |-> [err |-> NoError,
                     rows |-> Pick(st.rows, Matching(st, q, v))]]
      [] q.cls = "UPDATE" ->
           LET hit == Matching(st, q, v)
               rows == [i \in 1..Len(st.rows) |->
                           IF i \in hit THEN Assigned(st.rows[i], q, v)
                           ELSE st.rows[i]]
           IN IF UniqueKeys(rows)
              THEN [store |-> [st EXCEPT !.rows = rows],
                    out |-> [err |-> NoError, rows |-> Pick(rows, hit)]]
              ELSE [store |-> st, out |-> [err |-> DuplicateKey, rows |-> <<>>]]
      [] q.cls = "DELETE" ->
           LET hit == Matching(st, q, v)
           IN [store |-> [st EXCEPT !.rows =
                             Pick(st.rows, (1..Len(st.rows)) \ hit)],
               out |-> [err |-> NoError, rows |-> Pick(st.rows, hit)]]
      [] OTHER -> [store |-> st, out |-> OkOut]

DirectEnv(out) ==
    [conn |-> NULL, begin |-> OkOut, stmt |-> out, rollback |-> OkOut]

\* A Model operation of models[1] called without transaction: the statement
\* it builds is answered by the server from the table.
ModelCallOnTable(op, pk, body, where) ==
    /\ op = "create" => Len(store.rows) < MaxRows /\ store.serial <= MaxRows
    /\ \E built \in {ModelOp(op, Fresh, models[1], pk, body, where, NULL,
                              DirectEnv(OkOut))} :
       \E x \in {IF built.query = Sql("")
                 THEN [store |-> store, out |-> OkOut]
                 ELSE ServerExec(store, built.query, built.values)} :
       \E r \in {ModelOp(op, Fresh, models[1], pk, body, where, NULL,
                          DirectEnv(x.out))} :
          /\ Install(r.w)
          /\ store' = x.store
          /\ last' = [Call(op, NULL, r.query, r.values, NULL, r) EXCEPT
                         !.model = 1, !.ret = r.ret,
                         !.input = [pk |-> pk, body |-> body,
                                    where |-> where],
                         !.whereAfter =
                             CallerWhere(op, models[1], pk, where)]
    /\ UNCHANGED <<txMade, txRoe, scriptVars, syncVars, placeholder, emitted>>
    /\ UNCHANGED appVars

CreateBody == <<[key |-> "x", val |-> 1]>>
Changes == <<[key |-> "x", val |-> 2]>>
CrudRequests ==
    {[op |-> "create", body |-> CreateBody, where |-> Undefined]}
    \cup {[op |-> o, body |-> <<>>, where |-> w] :
              o \in {"find", "delete", "findByPk", "deleteByPk"},
              w \in {Undefined, Obj(Changes)}}
    \cup {[op |-> o, body |-> Changes, where |-> w] :
              o \in {"update", "updateByPk"}, w \in {Undefined, Obj(CreateBody)}}

NextCrud ==
    \E q \in CrudRequests, pk \in 1..MaxRows :
        ModelCallOnTable(q.op, pk, q.body, q.where)

SpecCrud == InitModel /\ [][NextCrud]_vars

\* ------------------------------------------------------------ properties
QueryEvents == {i \in 1..Len(log) : log[i].ev = "query"}
ReleaseEvents == {i \in 1..Len(log) : log[i].ev = "release"}

\* The caller's statement of the last Pool.query call failed on a connection.
FailedStmt ==
    {i \in QueryEvents : last.op = "query" /\ i > 0 /\ log[i].sql = last.query
                         /\ ~log[i].ok}

\* The class of bucket a generated statement belongs to, as a position in
\* the order the claim requires.
Rank(cls) ==
    CASE cls = "DROP CONSTRAINT" -> 1
      [] cls = "DROP TABLE" -> 2
      [] cls \in {"DROP SCHEMA", "CREATE SCHEMA"} -> 3
      [] cls = "CREATE TABLE" -> 4
      [] cls = "ADD CONSTRAINT" -> 5
      [] OTHER -> 0

DdlEvents == {i \in QueryEvents : Rank(log[i].sql.cls) > 0}
Registered == Len(Concat(
    [k \in 1..Len(QueryTypes) |-> Concat(ObjValues(folder[QueryTypes[k]]))]))
AlterPath == syncTx # NULL

\* C1: the statements sync({alter:true}) issues are ordered by class:
\* drop_constraint, then drop, then schema, then create, then alter, and when
\* no statement fails every registered statement is issued.
C1_SyncOrder ==
    /\ \A i, j \in DdlEvents :
           i < j => Rank(log[i].sql.cls) <= Rank(log[j].sql.cls)
    /\ (AlterPath /\ pc \in {"callback", "commit", "done"}) =>
           Cardinality({i \in DdlEvents : i <= cb.at}) = Registered

C1_Witness ==
    /\ AlterPath /\ pc = "done"
    /\ Len(folder.schema) = 2
    /\ \E i \in DdlEvents : log[i].sql.cls = "ADD CONSTRAINT"
    /\ \E i \in DdlEvents : log[i].sql.cls = "ADD CONSTRAINT"
           /\ log[i].sql.table # log[i].sql.refTable
           /\ models[1].tableName = log[i].sql.refTable
    /\ \A i \in DdlEvents : log[i].ok

\* C6: no Model operation raises; an operation whose query returned a
\* Failure, or whose precondition is violated (a by-pk operation on a table
\* without primary key, which issues no query, or one matching no row),
\* returns null.
C6_ModelNeverRaises ==
    last.op \in ModelOps =>
        /\ ~last.raised
        /\ (last.res # NoResult /\ ~IsSuccess(last.res)) => last.ret = NullValue
        /\ (last.op \in ByPkOps /\ models[last.model].pkColumn = NoColumn) =>
               /\ last.ret = NullValue
               /\ log = <<>>
        /\ (last.op \in ByPkOps /\ IsSuccess(last.res) /\ last.res.rows = <<>>)
               => last.ret = NullValue

C6_Witness ==
    /\ last.op = "updateByPk"
    /\ last.res # NoResult /\ ~IsSuccess(last.res)
    /\ last.tx # NULL
    /\ last.ret = NullValue
    /\ ~last.raised

\* C7: after a statement of the sequence fails, sync issues no further
\* statement of the sequence, does not call onSuccessAlter, and issues no
\* COMMIT.
C7_FailFast ==
    \A k \in DdlEvents :
        ~log[k].ok =>
            /\ pc = "aborted"
            /\ cb.calls = 0
            /\ \A j \in QueryEvents :
                   j > k => /\ j \notin DdlEvents
                            /\ log[j].sql.cls \notin CommitClass

C7_Witness ==
    /\ pc = "aborted"
    /\ idx >= 1
    /\ idx + 1 < Len(SyncSequence(folder))
    /\ \E k \in DdlEvents : ~log[k].ok /\ k < Len(log)

\* C8: when sync aborts at a failing statement, no statement issued before
\* it remains applied.
C8_NoPartialApply ==
    pc = "aborted" => \A i \in DdlEvents : log[i].sql \notin applied

\* C10 as stated: after a sync whose DDL all succeeded, the callback has been
\* invoked once, after the last DDL statement, with the still-bound
\* Transaction, and the last statement issued is COMMIT.
C10_CommitIsLast ==
    (AlterPath /\ pc = "done") =>
        /\ cb.calls = 1
        /\ cb.conn # NULL
        /\ \A i \in DdlEvents : i <= cb.at /\ log[i].conn = cb.conn
        /\ \E i \in QueryEvents :
               /\ i > cb.at
               /\ log[i].sql = CommitQuery
               /\ \A j \in QueryEvents : j <= i

\* C10 as amended: when every DDL statement succeeds the callback is invoked
\* exactly once, after the last DDL statement and before commit(), with the
\* Transaction the DDL ran on, still bound; if the Transaction is still bound
\* when the callback returns, COMMIT is the last statement issued and the
\* connection is then released; if a query of the callback failed and left
\* the Transaction unbound, commit() issues nothing; if the callback raises,
\* no COMMIT follows.
C10_CallbackThenCommit ==
    /\ cb.calls <= 1
    /\ (pc \in {"ddl", "aborted"} \/ ~AlterPath) => cb.calls = 0
    /\ (AlterPath /\ pc \in {"callback", "commit", "done"}) =>
           /\ cb.calls = 1
           /\ cb.conn # NULL
           /\ Cardinality({i \in DdlEvents : i <= cb.at /\ log[i].ok})
                  = Registered
           /\ \A i \in DdlEvents : i <= cb.at /\ log[i].conn = cb.conn
           /\ \A i \in QueryEvents :
                  (i <= cb.at /\ log[i].sql.cls \in CommitClass) => i = 2
    /\ (AlterPath /\ pc = "done") =>
           IF cb.ret # NULL
           THEN /\ Len(log) = cb.retAt + 2
                /\ log[Len(log) - 1].ev = "query"
                /\ log[Len(log) - 1].sql = CommitQuery
                /\ log[Len(log) - 1].conn = cb.ret
                /\ log[Len(log)].ev = "release"
                /\ log[Len(log)].conn = cb.ret
           ELSE /\ Len(log) = cb.retAt
                /\ \E i \in QueryEvents :
                       i > cb.at /\ ~log[i].ok /\ log[i].sql = SeedQuery
                /\ \A i \in QueryEvents :
                       (i > cb.at /\ log[i].sql.cls \in CommitClass) =>
                           log[i - 1].ev = "connect"
    /\ (AlterPath /\ pc = "raised" /\ cb.calls = 1) =>
           \A i \in QueryEvents :
               (i > cb.at /\ log[i].sql.cls \in CommitClass) =>
                   log[i - 1].ev = "connect"

C10_Witness ==
    /\ AlterPath /\ pc = "done"
    /\ cb.calls = 1 /\ cb.seeds >= 1 /\ cb.ret # NULL
    /\ Registered >= 5
    /\ log[Len(log) - 1].sql = CommitQuery

\* C2: when a statement run through a Transaction fails, the Transaction is
\* rolled back exactly when rollbackOnError is set: then ROLLBACK follows the
\* statement on the same connection and the connection is released before the
\* Failure is returned; otherwise the Transaction stays bound to the
\* connection and neither a ROLLBACK nor a release happens.
C2_RollbackIffFlag ==
    (last.op = "query" /\ last.tx # NULL) =>
        \A i \in FailedStmt :
            /\ ~last.raised
            /\ "code" \in last.res.keys
            /\ IF txRoe[last.tx]
               THEN /\ Len(log) = i + 2
                    /\ log[i + 1].ev = "query"
                    /\ log[i + 1].sql = RollbackQuery
                    /\ log[i + 1].conn = log[i].conn
                    /\ log[i + 2].ev = "release"
                    /\ log[i + 2].conn = log[i].conn
                    /\ txConn[last.tx] = NULL
                    /\ log[i].conn \in free
               ELSE /\ Len(log) = i
                    /\ txConn[last.tx] = log[i].conn
                    /\ log[i].conn \notin free
                    /\ (last.pre # NULL => txConn[last.tx] = last.pre)
                    /\ \A j \in QueryEvents : log[j].sql # RollbackQuery
                    /\ ReleaseEvents = {}

C2_Witness ==
    /\ last.op = "query" /\ last.tx # NULL /\ FailedStmt # {}
    /\ txRoe[last.tx]
    /\ last.pre # NULL
    /\ txConn[last.tx] = NULL

\* C3: begin(c2) on a Transaction already bound to c1 leaves it bound to c1
\* and issues no statement.
C3_SecondBeginNoOp ==
    (last.op = "begin" /\ last.pre # NULL) =>
        /\ txConn[last.tx] = last.pre
        /\ QueryEvents = {}

C3_Witness ==
    /\ last.op = "begin" /\ last.pre # NULL /\ last.arg # last.pre
    /\ txConn[last.tx] = last.pre

\* C4: commit() or rollback() on a bound Transaction leaves it without a
\* connection and the connection back in the pool; a later Pool.query on that
\* Transaction first takes a connection out of the pool and runs every
\* statement on that connection while it is checked out and bound.
C4_EndReleasesThenReacquire ==
    /\ (last.op \in {"commit", "rollback"} /\ last.pre # NULL) =>
           /\ txConn[last.tx] = NULL
           /\ last.pre \in free
           /\ \E i \in ReleaseEvents : log[i].conn = last.pre
    /\ (last.op = "query" /\ last.tx # NULL /\ last.wasEnded
            /\ last.pre = NULL) =>
           /\ log[1].ev = "connect"
           /\ log[1].ok => log[1].conn \in last.preFree
           /\ \A i \in QueryEvents :
                  /\ log[1].ok
                  /\ i > 1
                  /\ log[i].conn = log[1].conn
                  /\ log[i].held
                  /\ log[i].tx = last.tx

C4_Witness ==
    /\ last.op = "query" /\ last.tx # NULL /\ last.wasEnded
    /\ last.pre = NULL
    /\ \E i \in QueryEvents : log[i].sql = last.query /\ log[i].ok
    /\ txConn[last.tx] # NULL

\* C5: Pool.query never raises; it returns the driver's success result, or a
\* Failure carrying the driver code (or ER_INTERNAL_ERROR), the message, the
\* SQL text and the values it was called with.
C5_QueryNeverRaises ==
    last.op = "query" =>
        /\ ~last.raised
        /\ IF last.err = NoError
           THEN /\ last.res.keys = {"rows", "rowCount"}
                /\ \E i \in QueryEvents : log[i].sql = last.query /\ log[i].ok
           ELSE /\ {"code", "message", "query", "values"} \subseteq last.res.keys
                /\ last.res.code = IF last.err.hasCode THEN last.err.code
                                   ELSE "ER_INTERNAL_ERROR"
                /\ last.res.message.text \in {last.err.sqlMessage, last.err.text}
                /\ last.res.message.text # ""
                /\ last.res.query = last.query
                /\ last.res.values = last.values

C5_Witness ==
    /\ last.op = "query" /\ last.tx # NULL
    /\ log = <<Event("connect", NULL, Sql(""), FALSE, World)>>
    /\ last.res.code = "ER_INTERNAL_ERROR"
    /\ last.values # <<>>

\* C9: the statement begin() issues on a newly bound connection opens a
\* transaction block; it is not a commit-class statement.
C9_BeginOpensBlock ==
    \A i \in 1..Len(log) :
        (log[i].ev = "connect" /\ log[i].ok /\ i < Len(log)
            /\ log[i + 1].ev = "query") =>
            /\ log[i + 1].sql.cls \in StartClass
            /\ log[i + 1].sql.cls \notin CommitClass

\* C11: sync without alter runs every registered verification SELECT once, in
\* registration order, directly against the pool, whether or not an earlier
\* one failed; it issues no statement of any bucket, constructs no
\* Transaction and takes no connection out of the pool.
C11_VerifyOnly ==
    (~AlterPath /\ pc \in {"select", "done"}) =>
        /\ Len(log) = idx
        /\ \A i \in 1..Len(log) :
               /\ log[i].ev = "query"
               /\ log[i].conn = NULL
               /\ log[i].sql = syncScripts[i]
        /\ DdlEvents = {}
        /\ txMade = {} /\ free = Conns
        /\ \A t \in Txs : txConn[t] = NULL
        /\ pc = "done" => Len(log) = Len(syncScripts)

C11_Witness ==
    /\ ~AlterPath /\ pc = "done"
    /\ Len(syncScripts) >= 2
    /\ Len(log) = Len(syncScripts)
    /\ ~log[1].ok
    /\ Registered > Len(syncScripts)

\* C15: Pool.query with an unbound Transaction takes exactly one connection
\* out of the pool, binds it to the Transaction through begin and runs the
\* statement on it; with a bound Transaction it runs the statement on the
\* bound connection and takes nothing out of the pool; with no Transaction
\* it runs the statement on the pool itself and changes no Transaction.
C15_Routing ==
    [][last'.op = "query" =>
        LET t == last'.tx
            connects == {i \in 1..Len(log') : log'[i].ev = "connect"}
        IN IF t = NULL
           THEN /\ Len(log') = 1
                /\ log'[1].ev = "query"
                /\ log'[1].conn = NULL
                /\ log'[1].sql = last'.query
                /\ UNCHANGED <<free, txConn, txMade, txRoe>>
           ELSE IF txConn[t] # NULL
                THEN /\ connects = {}
                     /\ log'[1].ev = "query"
                     /\ log'[1].conn = txConn[t]
                     /\ log'[1].sql = last'.query
                     /\ free' \ free \subseteq {txConn[t]}
                     /\ free \subseteq free'
                ELSE /\ connects = {1}
                     /\ IF log'[1].ok
                        THEN /\ log'[1].conn \in free
                             /\ Len(log') >= 3
                             /\ log'[2].ev = "query"
                             /\ log'[2].sql = BeginQuery
                             /\ log'[2].conn = log'[1].conn
                             /\ log'[2].tx = t
                             /\ log'[3].ev = "query"
                             /\ log'[3].sql = last'.query
                             /\ log'[3].conn = log'[1].conn
                             /\ log'[3].tx = t
                             /\ free \ free' \subseteq {log'[1].conn}
                        ELSE /\ Len(log') = 1
                             /\ UNCHANGED <<free, txConn>>]_vars

C15_Witness ==
    /\ last.op = "query" /\ last.tx # NULL /\ last.pre = NULL
    /\ Len(log) = 3
    /\ log[1].ev = "connect" /\ log[1].conn \in last.preFree
    /\ log[3].sql = last.query /\ log[3].ok
    /\ txConn[last.tx] = log[1].conn

\* C16: commit() and rollback() on a Transaction without a connection issue
\* no statement, release nothing and leave the Transaction without a
\* connection; so a repeated commit() or rollback() does not release the
\* connection a second time.
C16_UnboundEndNoOp ==
    (last.op \in {"commit", "rollback"} /\ last.pre = NULL) =>
        /\ log = <<>>
        /\ txConn[last.tx] = NULL
        /\ free = last.preFree
        /\ ~last.raised

C16_Witness ==
    /\ last.op = "commit" /\ last.pre = NULL /\ last.wasEnded
    /\ log = <<>>
    /\ free = Conns

\* C17: isSuccess is false exactly when at least two of code, query, values
\* and message are present; every Failure Pool.query returns is classified
\* as a failure and every driver success result as a success.
C17_IsSuccess ==
    /\ \A ks \in SUBSET {"code", "query", "values", "message", "rows",
                          "rowCount"} :
           ~IsSuccess([NoResult EXCEPT !.keys = ks])
               <=> \E a, b \in ks \cap {"code", "query", "values", "message"} :
                       a # b
    /\ last.op = "query" =>
           /\ last.err # NoError => ~IsSuccess(last.res)
           /\ last.err = NoError => IsSuccess(last.res)
           /\ IsSuccess(last.res) <=> "rows" \in last.res.keys

C17_Witness ==
    /\ last.op = "query" /\ last.tx = NULL
    /\ last.err # NoError /\ last.err.hasSqlMessage
    /\ ~IsSuccess(last.res)
    /\ last.res.keys = {"code", "message", "query", "values"}

\* C20: a connection bound to a Transaction is checked out of the pool and
\* bound to no other Transaction; every release returns a connection that
\* is checked out and bound at that moment (so none is released twice), and
\* every statement run on a connection runs while it is checked out and
\* bound (so none is used after its release).
C20_OneConnection ==
    /\ \A t \in Txs : txConn[t] # NULL =>
           /\ txConn[t] \in Conns \ free
           /\ \A u \in Txs : txConn[u] = txConn[t] => u = t
    /\ \A i \in ReleaseEvents : log[i].held /\ log[i].tx # NULL
    /\ \A i \in QueryEvents :
           log[i].conn # NULL => log[i].held /\ log[i].tx # NULL
    /\ \A i, j \in ReleaseEvents :
           (i < j /\ log[i].conn = log[j].conn) =>
               \E k \in i..j : log[k].ev = "connect" /\ log[k].conn = log[i].conn

C20_Witness ==
    /\ last.op = "rollback" /\ last.pre # NULL /\ last.wasEnded
    /\ Cardinality(ReleaseEvents) = 1
    /\ txConn[last.tx] = NULL
    /\ last.pre \in free

\* C18: a by-pk operation on a table without primary-key column returns null
\* and issues no query; one whose query succeeds with no row returns null;
\* one whose query succeeds with rows returns the first row and only that.
C18_ByPkResult ==
    last.op \in ByPkOps =>
        IF models[last.model].pkColumn = NoColumn
        THEN /\ last.ret = NullValue
             /\ log = <<>>
             /\ last.res = NoResult
        ELSE /\ (IsSuccess(last.res) /\ last.res.rows = <<>>) =>
                    last.ret = NullValue
             /\ (IsSuccess(last.res) /\ last.res.rows # <<>>) =>
                    /\ last.ret.kind = "row"
                    /\ last.ret.rows = <<last.res.rows[1]>>
                    /\ \E i \in QueryEvents :
                           log[i].sql = last.query /\ log[i].ok

C18_Witness ==
    /\ last.op = "deleteByPk"
    /\ models[last.model].pkColumn # NoColumn
    /\ last.res.rows = <<1, 2>>
    /\ last.ret = [kind |-> "row", rows |-> <<1>>]

\* The statements of the buckets sync has issued so far, in the order issued.
IsDdl(e) == e.ev = "query" /\ Rank(e.sql.cls) > 0
IssuedDdl ==
    LET es == SelectSeq(log, IsDdl) IN [i \in 1..Len(es) |-> es[i].sql]
IsPrefix(a, b) == Len(a) <= Len(b) /\ a = SubSeq(b, 1, Len(a))
ClassOrder == <<"drop_constraint", "drop", "schema", "create", "alter">>
SchemaNames == [i \in 1..Len(folder.schema) |-> folder.schema[i].key]
Bucket(cls, n) == ObjGet(folder[cls], n)

\* Schema names outermost, classes within each schema name.
SchemaMajor ==
    Concat([n \in 1..Len(SchemaNames) |->
        Concat([k \in 1..Len(ClassOrder) |->
            Bucket(ClassOrder[k], SchemaNames[n])])])

\* Classes outermost, schema names within each class.
ClassMajor ==
    Concat([k \in 1..Len(ClassOrder) |->
        Concat([n \in 1..Len(folder[ClassOrder[k]]) |->
            folder[ClassOrder[k]][n].val])])

\* C19 as stated: the statements sync({alter:true}) issues run through the
\* schema names one after the other, the five buckets of one schema name
\* before any statement of the next.
C19_SchemaMajor ==
    (AlterPath /\ pc \in {"ddl", "aborted", "callback", "commit", "done"}) =>
        IsPrefix(IssuedDdl, SchemaMajor)

\* C19 as amended: the statements sync({alter:true}) issues run through the
\* classes drop_constraint, drop, schema, create, alter one after the other;
\* within a class through the schema names in the order they were first
\* registered, and within a bucket in registration order; all of them are
\* issued when none fails.
C19_ClassMajor ==
    /\ (AlterPath /\ pc \in {"ddl", "aborted", "callback", "commit", "done"}) =>
           IsPrefix(IssuedDdl, ClassMajor)
    /\ (AlterPath /\ pc \in {"callback", "commit", "done"}) =>
           SubSeq(IssuedDdl, 1, Len(ClassMajor)) = ClassMajor

C19_Witness ==
    /\ AlterPath /\ pc = "done"
    /\ Len(folder.schema) = 2
    /\ Len(models) = 2
    /\ IssuedDdl = ClassMajor
    /\ IssuedDdl # SchemaMajor
    /\ \A n \in 1..Len(folder.alter) : folder.alter[n].val = <<>>

\* The indices emitted by the calls selected by keep, in the order emitted.
Marks(keep) ==
    Concat([i \in 1..Len(emitted) |->
               IF emitted[i].mode \in keep THEN emitted[i].marks ELSE <<>>])
Contiguous(ms) == \A i \in 1..Len(ms) : ms[i] = i
Advances ==
    \A i \in 1..Len(emitted) :
        emitted[i].after = IF emitted[i].mode = "object"
                           THEN emitted[i].before + emitted[i].n
                           ELSE emitted[i].before

\* C12 as stated: over any mix of positional and assignment calls the indices
\* emitted are 1, 2, 3, ... in order; assignment calls advance the counter by
\* their number of keys and positional calls leave it unchanged.
C12_AllContiguous ==
    /\ Contiguous(Marks({"count", "object"}))
    /\ Advances

\* C12 as amended: the indices emitted by the assignment calls are 1, 2, 3,
\* ... in order and each such call advances the counter by its number of
\* keys; a positional call of count n emits counter+1 .. counter+n and leaves
\* the counter unchanged, so the next call starts again at counter+1.
C12_AssignmentContiguous ==
    /\ Contiguous(Marks({"object"}))
    /\ Advances
    /\ placeholder.counter = Len(Marks({"object"}))
    /\ \A i \in 1..Len(emitted) :
           /\ Len(emitted[i].marks) = emitted[i].n
           /\ \A k \in 1..emitted[i].n :
                  emitted[i].marks[k] = emitted[i].before + k
           /\ emitted[i].before = IF i = 1 THEN 0 ELSE emitted[i - 1].after

C12_Witness ==
    /\ Len(emitted) = 3
    /\ emitted[1].mode = "count" /\ emitted[1].marks = <<1, 2>>
    /\ emitted[2].mode = "object" /\ emitted[2].marks = <<1, 2>>
    /\ emitted[3].mode = "object" /\ emitted[3].marks = <<3>>
    /\ placeholder.counter = 3

\* The value the caller supplied for the field key of a WHERE clause: the pk
\* argument for the primary-key column of a by-pk operation, else the entry
\* of options.where.
WhereValue(key) ==
    IF last.op \in ByPkOps /\ key = models[last.model].pkColumn
    THEN last.input.pk
    ELSE ObjGet(last.input.where.entries, key)
StatementMarks ==
    {last.query.marks[i] : i \in 1..Len(last.query.marks)}
        \cup {last.query.set[i].mark : i \in 1..Len(last.query.set)}
        \cup {last.query.where[i].mark : i \in 1..Len(last.query.where)}

\* C13: the value list a Model operation passes to Pool.query has one entry
\* per placeholder of its statement, the placeholders being $1 .. $n, and
\* entry i is the value of the field written next to $i; an undefined
\* options.where contributes neither placeholders nor values.
C13_ValuesAligned ==
    (last.op \in ModelOps /\ last.query # Sql("")) =>
        /\ StatementMarks = 1..Len(last.values)
        /\ Len(last.query.marks) + Len(last.query.set) + Len(last.query.where)
               = Len(last.values)
        /\ Len(last.query.marks) = Len(last.query.cols)
        /\ \A i \in 1..Len(last.query.marks) :
               last.values[last.query.marks[i]]
                   = ObjGet(last.input.body, last.query.cols[i])
        /\ \A i \in 1..Len(last.query.set) :
               last.values[last.query.set[i].mark]
                   = ObjGet(last.input.body, last.query.set[i].key)
        /\ \A i \in 1..Len(last.query.where) :
               last.values[last.query.where[i].mark]
                   = WhereValue(last.query.where[i].key)
        /\ (last.op \in {"find", "update", "delete"}
                /\ ~last.input.where.def) =>
               /\ last.query.where = <<>>
               /\ Len(last.values) = Len(last.query.set)

C13_Witness ==
    /\ last.op = "updateByPk"
    /\ Len(last.input.body) = 2
    /\ last.input.where.def /\ Len(last.input.where.entries) = 2
    /\ last.values = <<6, 1, 5, 2>>
    /\ \E i \in QueryEvents : log[i].sql = last.query /\ log[i].ok

\* The row of the table whose primary key is k.
KeyOf(row) == ObjGet(row, models[1].pkColumn)
HasRow(st, k) == \E i \in 1..Len(st.rows) : KeyOf(st.rows[i]) = k
RowOf(st, k) == st.rows[CHOOSE i \in 1..Len(st.rows) : KeyOf(st.rows[i]) = k]
OneRow(row) == [kind |-> "row", rows |-> <<row>>]
OthersKept(k) ==
    \A j \in 1..MaxRows :
        j # k => /\ HasRow(store', j) <=> HasRow(store, j)
                 /\ HasRow(store, j) => RowOf(store', j) = RowOf(store, j)

\* C14: on a table with a primary key, create(body) returns the inserted row,
\* which carries the body and the key the table assigned; findByPk(key)
\* returns the row the table holds under that key; updateByPk(key, changes)
\* returns that row with the changes applied; deleteByPk(key) returns the
\* row and removes it; and findByPk returns null for a key the table does
\* not hold, as after deleteByPk.
C14_RoundTrip ==
    [][LET k == last'.input.pk
           plain == ~last'.input.where.def
       IN /\ last'.op = "create" =>
                 /\ last'.ret.kind = "row"
                 /\ KeyOf(last'.ret.rows[1]) = store.serial
                 /\ \A i \in 1..Len(last'.input.body) :
                        ObjGet(last'.ret.rows[1], last'.input.body[i].key)
                            = last'.input.body[i].val
                 /\ HasRow(store', store.serial)
                 /\ RowOf(store', store.serial) = last'.ret.rows[1]
                 /\ ~HasRow(store, store.serial)
          /\ (last'.op = "findByPk" /\ plain) =>
                 /\ store' = store
                 /\ last'.ret = IF HasRow(store, k)
                                THEN OneRow(RowOf(store, k)) ELSE NullValue
          /\ (last'.op = "updateByPk" /\ plain) =>
                 IF HasRow(store, k)
                 THEN /\ HasRow(store', k)
                      /\ last'.ret = OneRow(RowOf(store', k))
                      /\ \A i \in 1..Len(RowOf(store, k)) :
                             RowOf(store', k)[i].val =
                                 IF ObjHas(last'.input.body,
                                           RowOf(store, k)[i].key)
                                 THEN ObjGet(last'.input.body,
                                             RowOf(store, k)[i].key)
                                 ELSE RowOf(store, k)[i].val
                      /\ OthersKept(k)
                 ELSE last'.ret = NullValue /\ store' = store
          /\ (last'.op = "deleteByPk" /\ plain) =>
                 IF HasRow(store, k)
                 THEN /\ last'.ret = OneRow(RowOf(store, k))
                      /\ ~HasRow(store', k)
                      /\ OthersKept(k)
                 ELSE last'.ret = NullValue /\ store' = store]_vars

C14_Witness ==
    /\ last.op = "findByPk" /\ ~last.input.where.def
    /\ last.ret = NullValue
    /\ IsSuccess(last.res) /\ last.res.rows = <<>>
    /\ last.input.pk < store.serial
    /\ ~HasRow(store, last.input.pk)
    /\ \E i \in 1..Len(store.rows) : ObjGet(store.rows[i], "x") = 2

\* ------------------------------------------------- the registration script
\* Column maps given to define: those of Tables and one whose two columns
\* both set primaryKey.
ColumnMaps ==
    Tables \cup
    { [name |-> "c",
       body |-> << [key |-> "id",
                    val |-> Column("INTEGER", FALSE, TRUE, FALSE, NoDefault)],
                   [key |-> "code",
                    val |-> Column("INTEGER", FALSE, TRUE, FALSE,
                                   NoDefault)] >>] }

ConstraintNames == {"", "fk"}

\* Registration only: define and setForeignKey calls in any order.
NextScript ==
    \/ \E tb \in ColumnMaps, o \in SchemaOptions :
           DefineCall(SyncingDb, tb.name, tb.body, o)
    \/ \E i \in 1..MaxDefs, j \in 1..MaxDefs, c \in ConstraintNames :
           SetForeignKeyCall(i, j, "x", c)

SpecScript == Init /\ [][NextScript]_vars

Keys(obj) == [i \in 1..Len(obj) |-> obj[i].key]

\* The statements of class cls registered for the models of schema n, in
\* the order of the define calls.
RECURSIVE TableStatements(_, _, _)
TableStatements(cls, n, k) ==
    IF k = 0 THEN <<>>
    ELSE LET rest == TableStatements(cls, n, k - 1)
         IN IF models[k].schema = n
            THEN Append(rest, [Sql(cls) EXCEPT !.schema = n,
                                               !.table = models[k].tableName])
            ELSE rest

Header(q) == [Sql(q.cls) EXCEPT !.schema = q.schema, !.table = q.table]

\* C21: every schema name present in the script is present in all five
\* classes (create, drop, drop_constraint, schema, alter), in the same
\* position, and a registration step only appends: each bucket that existed
\* before the step is a prefix of the same bucket after it.
C21_BucketsAppendOnly ==
    [][ /\ \A ty \in DOMAIN folder' : Keys(folder'[ty]) = Keys(folder'.schema)
        /\ \A ty \in DOMAIN folder :
              /\ IsPrefix(Keys(folder[ty]), Keys(folder'[ty]))
              /\ \A i \in 1..Len(folder[ty]) :
                     IsPrefix(folder[ty][i].val, folder'[ty][i].val) ]_vars

C21_Witness ==
    /\ Len(folder.schema) = 2
    /\ \E i \in 1..Len(folder.alter) : Len(folder.alter[i].val) = 1
    /\ \E i \in 1..Len(folder.drop) : Len(folder.drop[i].val) = 1
    /\ Len(models) = 2

\* C22: the schema bucket of every schema name holds exactly DROP SCHEMA and
\* CREATE SCHEMA for that name, and every define call has appended exactly
\* one DROP TABLE to the drop bucket and one CREATE TABLE to the create
\* bucket of its schema, and one SELECT to syncScripts.
C22_DefineAppends ==
    /\ \A i \in 1..Len(folder.schema) :
          folder.schema[i].val = <<DropSchema(folder.schema[i].key),
                                   CreateSchema(folder.schema[i].key)>>
    /\ \A i \in 1..Len(folder.drop) :
          folder.drop[i].val =
              TableStatements("DROP TABLE", folder.drop[i].key, Len(models))
    /\ \A i \in 1..Len(folder.create) :
          [k \in 1..Len(folder.create[i].val) |->
              Header(folder.create[i].val[k])] =
              TableStatements("CREATE TABLE", folder.create[i].key, Len(models))
    /\ \A k \in 1..Len(models) : ObjHas(folder.drop, models[k].schema)
    /\ Len(syncScripts) = Len(models)
    /\ \A k \in 1..Len(models) :
          /\ syncScripts[k].cls = "SELECT"
          /\ syncScripts[k].schema = models[k].schema
          /\ syncScripts[k].table = models[k].tableName

C22_Witness ==
    /\ Len(models) = 2
    /\ models[1].schema = models[2].schema
    /\ Len(folder.schema) = 1
    /\ Len(folder.drop[1].val) = 2

\* The columns a CREATE TABLE statement marks PRIMARY KEY.
PrimaryKeys(q) == {i \in 1..Len(q.defs) : q.defs[i].primaryKey}

CreateOf(k) ==
    LET b == ObjGet(folder.create, models[k].schema)
    IN b[CHOOSE i \in 1..Len(b) : b[i].table = models[k].tableName]

\* C24: the CREATE TABLE statement of every defined table marks at most one
\* column PRIMARY KEY, and the model's pkColumn names that column (none
\* when no column is marked).
C24_OnePrimaryKey ==
    \A k \in 1..Len(models) :
        \A q \in {CreateOf(k)} :
            /\ Cardinality(PrimaryKeys(q)) <= 1
            /\ \A i \in PrimaryKeys(q) : q.defs[i].name = models[k].pkColumn
            /\ PrimaryKeys(q) = {} => models[k].pkColumn = NoColumn

\* The statements setForeignKey registered that are filed under a schema
\* name other than the schema of the table they alter.
Misfiled ==
    {q \in UNION {{[cls |-> cls, filed |-> folder[cls][n].key,
                    schema |-> folder[cls][n].val[i].schema] :
                      i \in 1..Len(folder[cls][n].val)} :
                  cls \in {"alter", "drop_constraint"},
                  n \in 1..Len(folder.schema)} :
        q.filed # q.schema}

\* C26: the two statements of a setForeignKey call are filed in the
\* drop_constraint and alter buckets of the schema of the model the call was
\* made on, whatever the order of the define calls.
C26_OwnSchemaBucket == Misfiled = {}

\* ------------------------------------------------------ several Db instances
\* Tables are defined through either Db instance; sync runs on SyncingDb,
\* on that instance's pool.
NextDbs ==
    \/ \E d \in Dbs, tb \in Tables, o \in SchemaOptions :
           DefineCall(d, tb.name, tb.body, o)
    \/ \E a \in BOOLEAN :
           \E e \in {x \in [conn : FirstFree \cup {NULL}, begin : {OkOut},
                           stmt : {OkOut}, rollback : {OkOut}] :
                        (x.conn = NULL) <=> ~a} :
               SyncStart(a, e)
    \/ \E o \in SyncOutcomes : SyncSelect(o)
    \/ SyncSelectDone
    \/ \E e \in SyncEnvs(syncTx) : SyncStep(e)
    \/ SyncInvoke
    \/ CallbackReturn
    \/ \E o \in {OkOut, FailOut} : SyncCommit(o)

SpecDbs == Init /\ [][NextDbs]_vars

\* Statement q was registered through the Db instance sync runs on.
Own(q) ==
    \E k \in 1..Len(models) :
        /\ owner[k] = SyncingDb
        /\ models[k].schema = q.schema
        /\ q.table \in {"", models[k].tableName}

\* C23: the statements sync issues on one Db instance (verification SELECTs
\* and the statements of the buckets) are statements registered through that
\* instance, never statements of tables defined through another instance.
C23_OwnStatements ==
    \A i \in QueryEvents :
        (Rank(log[i].sql.cls) > 0 \/ log[i].sql.cls = "SELECT") =>
            Own(log[i].sql)

\* C28: when sync({alter:true}) has finished (committed, aborted at a failing
\* statement, or raised), the connection taken for its transaction is back
\* in the pool and the transaction holds no connection.
C28_SyncReleases ==
    (AlterPath /\ pc \in {"done", "aborted", "raised"}) =>
        /\ txConn[syncTx] = NULL
        /\ free = Conns

\* C30: after findByPk, updateByPk or deleteByPk the where object the caller
\* passed has the keys and values it had before the call.
C30_WhereUnchanged ==
    last.op \in ByPkOps => last.whereAfter = last.input.where

\* --------------------------------- Pool.query calls sharing one Transaction
\* Each call runs from one await to the next in one step; the calls of Procs
\* interleave at the awaits (pool.connect and the three conn.query calls).
RaceTx == 1

\* A call's fields: the connection it took out of the pool (conn), the
\* connection its statement in flight runs on (on), whether the Transaction
\* held no connection when it started (unbound), and what it returned (res).
RaceStart(p) ==
    /\ RaceTx \in txMade
    /\ proc[p].pc = "idle"
    /\ proc' = [proc EXCEPT ![p] =
           IF txConn[RaceTx] = NULL
           THEN [@ EXCEPT !.pc = "connect", !.unbound = TRUE]
           ELSE [@ EXCEPT !.pc = "query", !.on = txConn[RaceTx]]]
    /\ UNCHANGED <<poolVars, log, last, scriptVars, syncVars, acl>>
    /\ UNCHANGED dataVars

\* The error hook of Pool.query, up to its first await: rollback() issues
\* ROLLBACK when rollbackOnError is set and the Transaction holds a
\* connection; otherwise the call returns its Failure.
RaceOnError(w, p) ==
    IF txRoe[RaceTx] /\ w.txConn[RaceTx] # NULL
    THEN [proc[p] EXCEPT !.pc = "rollback", !.on = w.txConn[RaceTx]]
    ELSE [proc[p] EXCEPT !.pc = "done", !.on = NULL, !.res = "failure"]

\* pool.connect() settles: a rejection goes to the error hook; otherwise
\* begin(c) binds c and issues its statement, or returns at once when the
\* Transaction is bound by now, and then the caller's statement is issued on
\* transaction.conn.
RaceConnect(p, c) ==
    /\ proc[p].pc = "connect"
    /\ IF c = NULL
       THEN \E w \in {ConnectFail(World)} :
               /\ Install(w)
               /\ proc' = [proc EXCEPT ![p] = RaceOnError(w, p)]
       ELSE \E w \in {Connect(World, c)} :
               IF w.txConn[RaceTx] # NULL
               THEN /\ Install(w)
                    /\ proc' = [proc EXCEPT ![p] =
                           [@ EXCEPT !.pc = "query", !.conn = c,
                                     !.on = w.txConn[RaceTx]]]
               ELSE /\ Install([w EXCEPT !.txConn[RaceTx] = c])
                    /\ proc' = [proc EXCEPT ![p] =
                           [@ EXCEPT !.pc = "begin", !.conn = c, !.on = c]]
    /\ UNCHANGED <<txMade, txRoe, last, scriptVars, syncVars, acl>>
    /\ UNCHANGED dataVars

\* The statement of begin settles (its error is swallowed); the caller's
\* statement is issued on transaction.conn, which raises when it is null.
RaceBegun(p, out) ==
    /\ proc[p].pc = "begin"
    /\ \E r \in {ConnQuery(World, proc[p].on, BeginQuery, out)} :
          /\ Install(r.w)
          /\ proc' = [proc EXCEPT ![p] =
                 IF r.w.txConn[RaceTx] = NULL
                 THEN RaceOnError(r.w, p)
                 ELSE [@ EXCEPT !.pc = "query", !.on = r.w.txConn[RaceTx]]]
    /\ UNCHANGED <<txMade, txRoe, last, scriptVars, syncVars, acl>>
    /\ UNCHANGED dataVars

\* The caller's statement settles.
RaceQueried(p, out) ==
    /\ proc[p].pc = "query"
    /\ \E r \in {ConnQuery(World, proc[p].on, Sql("SELECT"), out)} :
          /\ Install(r.w)
          /\ proc' = [proc EXCEPT ![p] =
                 IF r.err = NoError
                 THEN [@ EXCEPT !.pc = "done", !.on = NULL, !.res = "success"]
                 ELSE RaceOnError(r.w, p)]
    /\ UNCHANGED <<txMade, txRoe, last, scriptVars, syncVars, acl>>
    /\ UNCHANGED dataVars

\* ROLLBACK settles, end() runs, and the call returns its Failure.
RaceRolledBack(p, out) ==
    /\ proc[p].pc = "rollback"
    /\ \E r \in {ConnQuery(World, proc[p].on, RollbackQuery, out)} :
          Install(TransactionEnd(r.w, RaceTx))
    /\ proc' = [proc EXCEPT ![p] =
           [@ EXCEPT !.pc = "done", !.on = NULL, !.res = "failure"]]
    /\ UNCHANGED <<txMade, txRoe, last, scriptVars, syncVars, acl>>
    /\ UNCHANGED dataVars

NextRace ==
    \/ \E roe \in BOOLEAN : NewTransaction(RaceTx, roe)
    \/ \E p \in Procs : RaceStart(p)
    \/ \E p \in Procs, c \in FirstFree \cup {NULL} : RaceConnect(p, c)
    \/ \E p \in Procs, o \in {OkOut, FailOut} : RaceBegun(p, o)
    \/ \E p \in Procs, o \in {OkOut, FailOut} : RaceQueried(p, o)
    \/ \E p \in Procs, o \in {OkOut, FailOut} : RaceRolledBack(p, o)

SpecRace == Init /\ [][NextRace]_vars

\* C27: when two Pool.query calls that started on the same unbound
\* Transaction have both returned, every connection that is out of the pool
\* is the one bound to the Transaction.
C27_NoLeak ==
    (\A p \in Procs : proc[p].pc = "done" /\ proc[p].unbound) =>
        \A c \in Conns \ free : \E t \in Txs : txConn[t] = c

\* ------------------------------------------------------------ access control
\* The tables the RoleBase and AttributeBase constructors define.
AccessColumns(prefix, id, name, default) ==
    << [key |-> id, val |-> Column("SERIAL", FALSE, TRUE, FALSE, NoDefault)],
       [key |-> name, val |-> Column("TEXT", FALSE, FALSE, FALSE, NoDefault)],
       [key |-> "route", val |-> Column("TEXT", FALSE, FALSE, FALSE, NoDefault)] >>
    \o [i \in 1..5 |->
          [key |-> <<prefix, <<"post", "get", "patch", "put", "delete">>[i]>>,
           val |-> Column("BOOLEAN", FALSE, FALSE, FALSE,
                          [kind |-> "boolean", text |-> default])]]

InitAccessControl ==
    LET d1 == Define([folder |-> EmptyFolder, schema |-> ""], <<>>,
                     "rbac_table",
                     AccessColumns("can", "rbac_id", "role_name", "true"), "")
        d2 == Define(d1.script, d1.syncScripts, "abac_table",
                     AccessColumns("check", "abac_id", "attribute_name",
                                   "false"), "")
    IN /\ folder = d2.script.folder
       /\ schema = d2.script.schema
       /\ syncScripts = d2.syncScripts
       /\ models = <<d1.model, d2.model>>
       /\ owner = <<SyncingDb, SyncingDb>>

InitAccess == InitPool /\ InitAccessControl /\ InitSync /\ InitData /\ InitApp

AccessKinds == {"role", "attribute"}
AccessModel(kind) == IF kind = "role" THEN models[1] ELSE models[2]

\* The row one iteration of the sync loops inserts.
GrantBody(kind) ==
    <<[key |-> IF kind = "role" THEN "role_name" ELSE "attribute_name",
       val |-> 1],
      [key |-> "route", val |-> 1]>>

\* RoleBase.sync / AttributeBase.sync up to the loop: options.transaction is
\* the caller's transaction or a new rollbackOnError one; without alter the
\* call returns here. n is the number of rows the loops will insert.
AccessSyncStart(kind, alter, supplied, n, env) ==
    /\ acl.pc = "idle"
    /\ supplied \in txMade \cup {NULL}
    /\ IF supplied # NULL
       THEN /\ acl' = [NoAcl EXCEPT !.op = "sync", !.kind = kind,
                          !.tx = supplied, !.alter = alter, !.left = n,
                          !.pc = IF alter THEN "insert" ELSE "done"]
            /\ Install(Fresh)
            /\ UNCHANGED <<txMade, txRoe>>
       ELSE \E t \in {u \in Txs \ txMade : \A v \in Txs \ txMade : u <= v} :
            \E r \in {PoolTransaction(Fresh, t, env)} :
               /\ Install(r.w)
               /\ txRoe' = [txRoe EXCEPT ![t] = TRUE]
               /\ txMade' = txMade \cup {t}
               /\ acl' = [NoAcl EXCEPT !.op = "sync", !.kind = kind,
                             !.own = TRUE, !.tx = t, !.alter = alter,
                             !.left = n,
                             !.pc = IF r.raised THEN "raised"
                                    ELSE IF alter THEN "insert" ELSE "done"]
    /\ UNCHANGED <<last, scriptVars, syncVars, proc>>
    /\ UNCHANGED dataVars

\* One iteration: model.create(row, {transaction}); a null or undefined
\* response ends the call.
AccessSyncInsert(env) ==
    /\ acl.pc = "insert"
    /\ acl.left > 0
    /\ \E r \in {ModelCreate(World, AccessModel(acl.kind), GrantBody(acl.kind),
                             acl.tx, env)} :
          /\ Install(r.w)
          /\ acl' = IF r.ret.kind # "row"
                    THEN [acl EXCEPT !.pc = "done"]
                    ELSE [acl EXCEPT !.left = @ - 1]
    /\ UNCHANGED <<txMade, txRoe, last, scriptVars, syncVars, proc>>
    /\ UNCHANGED dataVars

\* After the loops: commit() is called only if options.transaction is
\* falsy, and options.transaction was assigned a Transaction at the start.
AccessSyncEnd ==
    /\ acl.pc = "insert"
    /\ acl.left = 0
    /\ acl' = [acl EXCEPT !.pc = "done"]
    /\ UNCHANGED <<poolVars, log, last, scriptVars, syncVars, proc>>
    /\ UNCHANGED dataVars

\* The check flags of an abac record, by method.
Methods == {"POST", "GET", "PATCH", "PUT", "DELETE", "HEAD"}
Flags(post, get, patch, put, delete) ==
    [check_post |-> post, check_get |-> get, check_patch |-> patch,
     check_put |-> put, check_delete |-> delete]
FlagSets ==
    {Flags(FALSE, FALSE, FALSE, FALSE, FALSE),
     Flags(TRUE, TRUE, TRUE, TRUE, TRUE),
     Flags(FALSE, FALSE, FALSE, FALSE, TRUE),
     Flags(TRUE, TRUE, TRUE, TRUE, FALSE)}

HasMethod_DeleteLikeOthers(method, abac) ==
    \/ method = "POST" /\ abac.check_post
    \/ method = "GET" /\ abac.check_get
    \/ method = "PATCH" /\ abac.check_patch
    \/ method = "PUT" /\ abac.check_put
    \/ method = "DELETE" /\ abac.check_delete

\* hasMethod of AttributeBase.check
HasMethod(method, abac) ==
    \/ method = "POST" /\ abac.check_post
    \/ method = "GET" /\ abac.check_get
    \/ method = "PATCH" /\ abac.check_patch
    \/ method = "PUT" /\ abac.check_put
    \/ method = "DELETE" /\ ~abac.check_delete

\* The middleware of AttributeBase.check up to the loop: the abac records of
\* the route are looked up; none found is answered 403. flags gives the
\* check flags of the rows of the table.
AccessCheckStart(method, flags, out) ==
    /\ acl.pc = "idle"
    /\ \E r \in {ModelFind(Fresh, AccessModel("attribute"),
                           Obj(<<[key |-> "route", val |-> 1]>>), NULL,
                           DirectEnv(out))} :
          /\ Install(r.w)
          /\ acl' = IF r.ret = NullValue \/ Len(r.ret.rows) = 0
                    THEN [NoAcl EXCEPT !.op = "check", !.method = method,
                             !.pc = "done", !.status = 403,
                             !.outcome = "no record"]
                    ELSE [NoAcl EXCEPT !.op = "check", !.method = method,
                             !.pc = "check", !.rows = r.ret.rows,
                             !.flags = flags]
    /\ UNCHANGED <<txMade, txRoe, last, scriptVars, syncVars, proc>>
    /\ UNCHANGED dataVars

\* One iteration of the loop over the records: the attribute handler is
\* awaited (h: what it returns, or "raise"), then the record is judged.
AccessCheckRecord(h) ==
    /\ acl.pc = "check"
    /\ Len(acl.results) < Len(acl.rows)
    /\ LET abac == acl.flags[acl.rows[Len(acl.results) + 1]]
           seen == [acl EXCEPT !.results = Append(@, h)]
       IN acl' = IF h = "raise"
                 THEN [seen EXCEPT !.pc = "done", !.status = 500,
                                   !.outcome = "error"]
                 ELSE IF HasMethod(acl.method, abac) /\ h = "false"
                      THEN [seen EXCEPT !.pc = "done", !.status = 403,
                                        !.outcome = "policy"]
                      ELSE seen
    /\ UNCHANGED <<poolVars, log, last, scriptVars, syncVars, proc>>
    /\ UNCHANGED dataVars

\* next()
AccessCheckNext ==
    /\ acl.pc = "check"
    /\ Len(acl.results) = Len(acl.rows)
    /\ acl' = [acl EXCEPT !.pc = "done", !.next = TRUE, !.outcome = "next"]
    /\ UNCHANGED <<poolVars, log, last, scriptVars, syncVars, proc>>
    /\ UNCHANGED dataVars

\* The middleware has answered; the next request can come.
AccessCheckAgain ==
    /\ acl.op = "check"
    /\ acl.pc = "done"
    /\ acl' = NoAcl
    /\ UNCHANGED <<poolVars, log, last, scriptVars, syncVars, proc>>
    /\ UNCHANGED dataVars

AccessEnvs(t) ==
    {e \in Envs(World, t) :
        /\ e.stmt \in ModelOutcomes
        /\ e.begin = OkOut /\ e.rollback = OkOut
        /\ e.conn \in FirstFree \cup {NULL}}

NextAccess ==
    \/ \E t \in Txs, roe \in BOOLEAN : NewTransaction(t, roe)
    \/ \E k \in AccessKinds, a \in BOOLEAN, t \in Txs \cup {NULL},
          n \in 0..MaxGrants :
          \E e \in {x \in [conn : FirstFree \cup {NULL}, begin : {OkOut},
                           stmt : {OkOut}, rollback : {OkOut}] :
                        t # NULL => x.conn = NULL} :
              AccessSyncStart(k, a, t, n, e)
    \/ \E e \in AccessEnvs(acl.tx) : AccessSyncInsert(e)
    \/ AccessSyncEnd
    \/ \E m \in Methods, f \in [1..2 -> FlagSets],
          o \in {[err |-> NoError, rows |-> r] : r \in RowSets} \cup {FailOut} :
          AccessCheckStart(m, f, o)
    \/ \E h \in {"true", "false", "raise"} : AccessCheckRecord(h)
    \/ AccessCheckNext
    \/ AccessCheckAgain

SpecAccess == InitAccess /\ [][NextAccess]_vars

\* The condition the claim gives for a record to stand against a request.
Required(method, abac) ==
    CASE method = "POST" -> abac.check_post
      [] method = "GET" -> abac.check_get
      [] method = "PATCH" -> abac.check_patch
      [] method = "PUT" -> abac.check_put
      [] method = "DELETE" -> ~abac.check_delete
      [] OTHER -> FALSE

Stands(i) ==
    /\ Required(acl.method, acl.flags[acl.rows[i]])
    /\ acl.results[i] = "false"

\* C25: AttributeBase.check rejects a request for which records were found
\* exactly when, for the first record processed whose handler returned
\* false, the record's check flag of the method is true for POST, GET,
\* PATCH and PUT, and check_delete is false for DELETE; the rejection is
\* answered 403 and next() is not called.
C25_DeleteInverted ==
    (acl.op = "check" /\ acl.rows # <<>>) =>
        /\ \A i \in 1..Len(acl.results) :
               Stands(i) <=> (i = Len(acl.results) /\ acl.outcome = "policy")
        /\ acl.outcome = "policy" =>
               acl.pc = "done" /\ acl.status = 403 /\ ~acl.next
        /\ acl.outcome = "next" =>
               acl.next /\ Len(acl.results) = Len(acl.rows)

C25_Witness ==
    /\ acl.op = "check" /\ acl.method = "DELETE"
    /\ acl.outcome = "policy"
    /\ Len(acl.results) = 2
    /\ acl.flags[acl.rows[1]].check_delete
    /\ acl.results[1] = "false"
    /\ ~acl.flags[acl.rows[2]].check_delete

\* C29: when RoleBase.sync or AttributeBase.sync has returned and had opened
\* the transaction itself, the transaction holds no connection and the
\* connection is back in the pool.
C29_SyncResolves ==
    (acl.op = "sync" /\ acl.pc = "done" /\ acl.own) =>
        /\ txConn[acl.tx] = NULL
        /\ free = Conns

====
